---------------------------- MODULE Spec2Model ----------------------------
(***************************************************************************)
(* Verification model of the wx orchestration and resolution engine:       *)
(*   - wx/orchestrator.py  (handlers, _maybe_fetch, worldview aggregation)  *)
(*   - wx/forecaster.py    (provider chain, deterministic fallback)         *)
(*   - wx/openrouter_client.py (chat_completion retry loop)                 *)
(*   - wx/fetchers.py, wx/config.py (adapters, settings, persistence)       *)
(*                                                                         *)
(* Python values are encoded as follows.  An Optional value is a sequence  *)
(* of length at most one: None is <<>> and a value v is <<v>>.  A Python   *)
(* list is a sequence, a dict is a sequence of [key, value] records in     *)
(* insertion order, a Python set is a set.                                 *)
(***************************************************************************)
EXTENDS Integers, Sequences, FiniteSets, TLC

VARIABLES
    observations,   \* _compute_region_stats: the list[Observation] argument
    stats,          \* _compute_region_stats: the returned RegionStats (Optional)
    alerts,         \* _summarize_alerts: the list[Alert] argument
    alert_summary,  \* _summarize_alerts: the returned list of entries (Optional)
    fb_pack,        \* deterministic fallback called twice: the FeaturePack argument
    fb_first,       \* ... the first call's (assumptions, used_feature_fields)
    fb_second,      \* ... the second call's (assumptions, used_feature_fields)
    hpc,            \* handler: position in the handler ("idle" before a request)
    request,        \* handler: the request being served (Optional)
    feature_pack,   \* handler: the FeaturePack under construction
    place_info,     \* handler: the result of the point_context fetch
    alerts_fetched, \* handle_alerts: the local `alerts`
    fetchers,       \* handler: debug_info["fetchers"], the diagnostics list
    adapter_log,    \* every adapter invocation of the request and how it ended
    returned,       \* handler: type of the value returned ("" before the return)
    raised,         \* handler: class of the exception that left it ("" if none)
    saved,          \* the persisted last-query payload (Optional)
    wpc,            \* handle_worldview: position in the handler
    severe_only,    \* handle_worldview: the severe_only argument
    submitted,      \* handle_worldview: fetch tasks submitted to the executor
    fetched,        \* handle_worldview: results of the completed fetch tasks
    worldview,      \* handle_worldview: the Worldview returned (Optional)
    settings,       \* config.Settings and Orchestrator.trust_tools
    payload,        \* Forecaster.generate: the payload of the call (Optional)
    fpc,            \* Forecaster.generate: position in the call
    attempts,       \* chat_completion: attempts made
    slept,          \* chat_completion: the backoff sleeps taken
    http_log,       \* chat_completion: outcome of each HTTP attempt
    chat,           \* _invoke_provider: result of chat_completion (Optional)
    gemini,         \* _invoke_provider: outcome of _call_gemini (Optional)
    calls,          \* provider calls made, in order
    response,       \* the ForecasterResponse returned (Optional)
    explained,      \* Forecaster.explain: the dict returned (Optional)
    epc,            \* handle_explain: "idle", then "returned" or "raised"
    adapter,        \* wx/fetchers.py: one adapter call and how it ended (Optional)
    region_summary, \* _generate_region_summary: the region and the text (Optional)
    limiter         \* rate_limiter.RateLimiter, its callers and the clock (Optional)

statsVars == <<observations, stats>>

alertVars == <<alerts, alert_summary>>

fbVars == <<fb_pack, fb_first, fb_second>>

chainVars == <<payload, fpc, attempts, slept, http_log, chat, gemini, calls, response,
               explained, epc>>

handlerVars == <<hpc, request, feature_pack, place_info, alerts_fetched, fetchers,
                 adapter_log, returned, raised, saved>>

worldVars == <<wpc, severe_only, submitted, fetched, worldview>>

\* what no handler, provider or worldview step changes
envVars == <<settings, adapter, region_summary, limiter>>

vars == <<statsVars, alertVars, fbVars, handlerVars, worldVars, envVars, chainVars>>

----------------------------------------------------------------------------
(* Generic helpers for the Python encoding *)

None == <<>>

Some(v) == <<v>>

Range(seq) == {seq[i] : i \in 1..Len(seq)}

\* seq[:n]
Take(seq, n) == SubSeq(seq, 1, IF Len(seq) < n THEN Len(seq) ELSE n)

\* all sequences over S of length 0..n
SeqsUpTo(S, n) == UNION {[1..k -> S] : k \in 0..n}

\* min(list) and max(list) of a non-empty list of numbers
min(list) == CHOOSE m \in Range(list) : \A x \in Range(list) : m <= x

max(list) == CHOOSE m \in Range(list) : \A x \in Range(list) : m >= x

----------------------------------------------------------------------------
(* Bounds of the model *)

MaxObs == 2

MaxMetric == 1

MaxAlerts == 6

MaxPackKeys == 2

MaxPoints == 2

MaxAreaAlerts == 3

MaxThreads == 2

MaxCalls == 4

MaxClock == 70

----------------------------------------------------------------------------
(* wx/orchestrator.py : _compute_region_stats *)

MetricVals == 0..MaxMetric

OptMetric == {None} \cup {Some(v) : v \in MetricVals}

\* fetchers.Observation, restricted to the fields the aggregation reads
Observation == [temp : OptMetric, precip_prob : OptMetric, wind : OptMetric, gust : OptMetric]

RegionStats(tmin, tmax, pop_max, wind_max, gust_max) ==
    [tmin |-> tmin, tmax |-> tmax, pop_max |-> pop_max,
     wind_max |-> wind_max, gust_max |-> gust_max]

\* a plausible slip: the comprehension filters on truthiness, which drops 0
NonNullList_truthy(obsList, field) ==
    LET sel == SelectSeq(obsList, LAMBDA o : o[field] # None /\ o[field] # Some(0))
    IN  [i \in 1..Len(sel) |-> sel[i][field][1]]

\* [obs.field for obs in observations if obs.field is not None]
NonNullList(obsList, field) ==
    LET sel == SelectSeq(obsList, LAMBDA o : o[field] # None)
    IN  [i \in 1..Len(sel) |-> sel[i][field][1]]

_compute_region_stats(obsList) ==
    IF Len(obsList) = 0
    THEN RegionStats(None, None, None, None, None)
    ELSE LET temps        == NonNullList(obsList, "temp")
             precip_probs == NonNullList(obsList, "precip_prob")
             winds        == NonNullList(obsList, "wind")
             gusts        == NonNullList(obsList, "gust")
         IN  RegionStats(
                 IF Len(temps) > 0 THEN Some(min(temps)) ELSE None,
                 IF Len(temps) > 0 THEN Some(max(temps)) ELSE None,
                 IF Len(precip_probs) > 0 THEN Some(max(precip_probs)) ELSE None,
                 IF Len(winds) > 0 THEN Some(max(winds)) ELSE None,
                 IF Len(gusts) > 0 THEN Some(max(gusts)) ELSE None)

StatsIdle ==
    /\ observations = <<>>
    /\ stats = None

StatsInit ==
    /\ observations \in SeqsUpTo(Observation, MaxObs)
    /\ stats = None

ComputeRegionStats ==
    /\ stats = None
    /\ stats' = Some(_compute_region_stats(observations))
    /\ UNCHANGED <<observations, alertVars, fbVars, handlerVars, worldVars, envVars, chainVars>>

----------------------------------------------------------------------------
(* wx/orchestrator.py : _summarize_alerts *)

\* event names of the feed; two of them differ only by case
EventNames ==
    {"Tornado Warning", "Flood Watch", "flood watch", "Heat Advisory",
     "Wind Advisory", "Winter Storm Warning"}

\* area names in Python's sorted() order
AreaOrder == <<"Arizona", "Iowa", "Kansas", "Louisiana", "Nebraska", "Oklahoma", "Texas">>

AreaLists == {<<"Texas", "Oklahoma", "Kansas">>}

\* fetchers.Alert, restricted to the fields the aggregation reads
Alert == [event : EventNames, areas : AreaLists]

\* sorted(list(areas)) for a set of area names
sorted_areas(areaSet) == SelectSeq(AreaOrder, LAMBDA a : a \in areaSet)

\* a plausible slip: only the first area of an alert is kept
AreasKept_first_only(areas) == Take(areas, 1)

\* line 822, alert.areas[:2]: the areas of an alert that enter its group
AreasKept(areas) == Take(areas, 2)

\* the `grouped` dict after the loop over alerts[1..n]: a sequence of
\* [event, count, areas] in first-occurrence order
RECURSIVE GroupAlerts(_, _)
GroupAlerts(alertList, n) ==
    IF n = 0 THEN <<>>
    ELSE LET grouped == GroupAlerts(alertList, n - 1)
             alert   == alertList[n]
             event   == alert.event
             new     == AreasKept(alert.areas)
         IN  IF \E i \in 1..Len(grouped) : grouped[i].event = event
             THEN [i \in 1..Len(grouped) |->
                      IF grouped[i].event = event
                      THEN [grouped[i] EXCEPT !.count = @ + 1,
                                              !.areas = @ \cup Range(new)]
                      ELSE grouped[i]]
             ELSE Append(grouped, [event |-> event, count |-> 1, areas |-> Range(new)])

\* sorted(result, key=lambda x: x["count"], reverse=True): stable, descending
RECURSIVE SortByCountDesc(_)
SortByCountDesc(result) ==
    IF Len(result) = 0 THEN <<>>
    ELSE LET best == CHOOSE i \in 1..Len(result) :
                         /\ \A j \in 1..Len(result) : result[j].count <= result[i].count
                         /\ \A j \in 1..(i - 1) : result[j].count < result[i].count
             rest == [k \in 1..(Len(result) - 1) |->
                         IF k < best THEN result[k] ELSE result[k + 1]]
         IN  <<result[best]>> \o SortByCountDesc(rest)

\* a plausible slip: the final [:5] truncation is missing
_summarize_alerts_untruncated(alertList) ==
    LET grouped == GroupAlerts(alertList, Len(alertList))
        result  == [i \in 1..Len(grouped) |->
                       [event |-> grouped[i].event,
                        count |-> grouped[i].count,
                        areas |-> Take(sorted_areas(grouped[i].areas), 5)]]
    IN  SortByCountDesc(result)

_summarize_alerts(alertList) ==
    IF Len(alertList) = 0 THEN <<>>
    ELSE LET grouped == GroupAlerts(alertList, Len(alertList))
             result  == [i \in 1..Len(grouped) |->
                            [event |-> grouped[i].event,
                             count |-> grouped[i].count,
                             areas |-> Take(sorted_areas(grouped[i].areas), 5)]]
         IN  Take(SortByCountDesc(result), 5)

\* alerts of two events over area lists that overlap, that are longer than
\* two, and that together name more than five areas
AreaAlert ==
    [event : {"Flood Watch", "Heat Advisory"},
     areas : {<<"Texas", "Oklahoma", "Kansas">>, <<"Arizona", "Iowa">>,
              <<"Louisiana", "Nebraska">>, <<"Kansas">>, <<>>}]

AreaAlertsInit ==
    /\ alerts \in SeqsUpTo(AreaAlert, MaxAreaAlerts)
    /\ alert_summary = None

AlertsIdle ==
    /\ alerts = <<>>
    /\ alert_summary = None

AlertsInit ==
    /\ alerts \in SeqsUpTo(Alert, MaxAlerts)
    /\ alert_summary = None

SummarizeAlerts ==
    /\ alert_summary = None
    /\ alert_summary' = Some(_summarize_alerts(alerts))
    /\ UNCHANGED <<alerts, statsVars, fbVars, handlerVars, worldVars, envVars, chainVars>>

----------------------------------------------------------------------------
(* FeaturePack values.  A FeaturePack is a dict: a sequence of
   [key, value] records in insertion order with pairwise distinct keys.
   A value is [kind, entries]: kind "none" is None, "list" a list whose
   items are the entries, "dict" a dict whose subkeys are the entries' keys,
   "scalar" a string or number.  An entry is [key, val], val a sequence of
   strings. *)

Entry(k, v) == [key |-> k, val |-> v]

NoneVal == [kind |-> "none", entries |-> <<>>]

ListVal(items) == [kind |-> "list", entries |-> [i \in 1..Len(items) |-> Entry("", items[i])]]

DictVal(entries) == [kind |-> "dict", entries |-> entries]

ScalarVal(s) == [kind |-> "scalar", entries |-> <<Entry("", <<s>>)>>]

\* a dict with the given subkeys and opaque values
DictOf(subkeys) == DictVal([i \in 1..Len(subkeys) |-> Entry(subkeys[i], <<"v">>)])

\* dict.keys() in insertion order
Keys(dict) == [i \in 1..Len(dict) |-> dict[i].key]

HasKey(dict, k) == \E i \in 1..Len(dict) : dict[i].key = k

\* dict[k] for a key that is present
Get(dict, k) == dict[CHOOSE i \in 1..Len(dict) : dict[i].key = k].value

\* dict[k] = v : replaces in place, or appends a new key
Put(dict, k, v) ==
    IF HasKey(dict, k)
    THEN [i \in 1..Len(dict) |-> IF dict[i].key = k THEN [key |-> k, value |-> v] ELSE dict[i]]
    ELSE Append(dict, [key |-> k, value |-> v])

\* a plausible slip: only None is skipped, empty lists and maps are kept
IsEmptyValue_none_only(value) == value.kind = "none"

\* value in (None, [], {})
IsEmptyValue(value) ==
    \/ value.kind = "none"
    \/ value.kind \in {"list", "dict"} /\ Len(value.entries) = 0

\* bool(value) for the values adapters return
Truthy(value) == ~IsEmptyValue(value)

----------------------------------------------------------------------------
(* wx/forecaster.py : _enumerate_feature_fields *)

\* top-level FeaturePack keys, in Python's string order
KeyOrder ==
    <<"alerts_quick", "obs_quick", "place", "profile_quick", "units",
      "user_context", "window">>

\* subkeys of the dict-valued sections, in Python's string order
SubkeyOrder ==
    <<"cape_jkg", "ceiling_m", "cin_jkg", "constraints", "end_iso", "end_local",
      "feels_like", "gust", "horizon", "input", "lapse_700_500_cpkm", "lat",
      "lcl_m", "lon", "precip", "precip_last_hr", "pwat_in", "resolved",
      "shear06_kt", "start_iso", "start_local", "temp", "timezone", "tz",
      "use_case", "vis_km", "wind">>

RECURSIVE Concat(_)
Concat(seqs) == IF Len(seqs) = 0 THEN <<>> ELSE Head(seqs) \o Concat(Tail(seqs))

\* every field name "key" and "key.subkey", in Python's string order (no key
\* is a prefix of another, so a key's names are contiguous, the bare key first)
FieldOrder ==
    Concat([i \in 1..Len(KeyOrder) |->
               <<KeyOrder[i]>> \o
               [j \in 1..Len(SubkeyOrder) |-> KeyOrder[i] \o "." \o SubkeyOrder[j]]])

\* the `keys` list built by the loop over feature_pack.items()
RECURSIVE FieldKeys(_)
FieldKeys(pack) ==
    IF Len(pack) = 0 THEN <<>>
    ELSE LET key   == Head(pack).key
             value == Head(pack).value
             here  == IF IsEmptyValue(value) THEN <<>>
                      ELSE IF key = "units" THEN <<"units">>
                      ELSE IF value.kind = "dict"
                           THEN [i \in 1..Len(value.entries) |->
                                    key \o "." \o value.entries[i].key]
                           ELSE <<key>>
         IN  here \o FieldKeys(Tail(pack))

\* the orders in which a Python set may be iterated (string hashing is
\* randomised per process): every enumeration of S without repetition
RECURSIVE IterOrders(_)
IterOrders(S) ==
    IF S = {} THEN {<<>>}
    ELSE UNION {{<<x>> \o it : it \in IterOrders(S \ {x})} : x \in S}

\* one of these orders
RECURSIVE SomeIterOrder(_)
SomeIterOrder(S) ==
    IF S = {} THEN <<>>
    ELSE LET x == CHOOSE y \in S : TRUE IN <<x>> \o SomeIterOrder(S \ {x})

\* a plausible slip: list(set(keys)) without the sort
sorted_missing(it) == it

\* sorted(iterable) for an iterable of distinct field names
sorted(it) == SelectSeq(FieldOrder, LAMBDA s : s \in Range(it))

\* _enumerate_feature_fields when set(keys) is iterated in the order `it`
enumerate_feature_fields_iter(pack, it) == sorted(it)

\* _enumerate_feature_fields(pack): sorted(set(keys))
_enumerate_feature_fields(pack) ==
    enumerate_feature_fields_iter(pack, SomeIterOrder(Range(FieldKeys(pack))))

\* ", ".join(parts)
RECURSIVE Join(_, _)
Join(parts, sep) ==
    IF Len(parts) = 0 THEN ""
    ELSE IF Len(parts) = 1 THEN parts[1]
    ELSE parts[1] \o sep \o Join(Tail(parts), sep)

\* the sections["assumptions"] list of _fallback_response
Assumptions(used_fields) ==
    <<"Feature Pack fields used: " \o
      (IF Len(used_fields) > 0 THEN Join(used_fields, ", ") ELSE "none supplied")>>

----------------------------------------------------------------------------
(* The deterministic fallback called twice with one FeaturePack *)

PackKeys == {"units", "place", "alerts_quick", "user_context"}

PackValues ==
    {NoneVal, ListVal(<<>>), DictVal(<<>>), ListVal(<<<<"a">>>>), ScalarVal("s"),
     DictOf(<<"lat", "lon">>), DictOf(<<"lon", "tz">>)}

\* dicts over PackKeys with at most MaxPackKeys keys, in every insertion order
FeaturePacks ==
    {fp \in SeqsUpTo([key : PackKeys, value : PackValues], MaxPackKeys) :
        \A i, j \in 1..Len(fp) : i # j => fp[i].key # fp[j].key}

FallbackIdle ==
    /\ fb_pack = <<>>
    /\ fb_first = None
    /\ fb_second = None

FallbackInit ==
    /\ fb_pack \in FeaturePacks
    /\ fb_first = None
    /\ fb_second = None

\* what one call of _fallback_response derives from the FeaturePack
FallbackFields(pack, it) ==
    LET used_fields == enumerate_feature_fields_iter(pack, it)
    IN  [assumptions |-> Assumptions(used_fields), used_feature_fields |-> used_fields]

FallbackFirstCall ==
    /\ fb_first = None
    /\ \E it \in IterOrders(Range(FieldKeys(fb_pack))) :
           fb_first' = Some(FallbackFields(fb_pack, it))
    /\ UNCHANGED <<fb_pack, fb_second, statsVars, alertVars, handlerVars, worldVars, envVars, chainVars>>

FallbackSecondCall ==
    /\ fb_first # None
    /\ fb_second = None
    /\ \E it \in IterOrders(Range(FieldKeys(fb_pack))) :
           fb_second' = Some(FallbackFields(fb_pack, it))
    /\ UNCHANGED <<fb_pack, fb_first, statsVars, alertVars, handlerVars, worldVars, envVars, chainVars>>

----------------------------------------------------------------------------
(* wx/openrouter_client.py : chat_completion *)

RETRYABLE_STATUS_CODES == {429, 500, 502, 503, 504}

\* OpenRouterConfig.retries; _build_openrouter_config never overrides it
retries == 3

\* OpenRouterConfig.backoff_factor, in hundredths of a second
backoff_factor == 75

\* what one httpx.post attempt can end in: an HTTP error status, a timeout or
\* transport error, another httpx error (e.g. TooManyRedirects), or a 200 whose
\* body is not JSON, is JSON but not a mapping, has no message content, or
\* carries the assistant text `text`
StatusOutcome(code) == [kind |-> "status", status |-> code, text |-> <<>>]

PlainOutcome(kind) == [kind |-> kind, status |-> 0, text |-> <<>>]

TextOutcome(text) == [kind |-> "ok_text", status |-> 200, text |-> text]

\* response text: a sequence of lines, a line being a Markdown fence or a
\* JSON document of one of four kinds
BodyKinds == {"object", "empty_object", "non_object", "invalid"}

\* a line that starts with three backquotes
Fence == "FENCE"

Texts ==
    {<<b>> : b \in BodyKinds} \cup {<<Fence, b, Fence>> : b \in BodyKinds}
        \cup {<<Fence, "object">>, <<"object", Fence>>}

HttpOutcomes ==
    {StatusOutcome(code) : code \in RETRYABLE_STATUS_CODES \cup {400, 401, 403}}
        \cup {PlainOutcome(k) : k \in {"timeout", "transport_error", "other_error",
                                       "ok_invalid_json", "ok_not_mapping",
                                       "ok_missing_content"}}
        \cup {TextOutcome(t) : t \in Texts}

\* the result of a chat_completion call
ChatReturn(text, n) ==
    [kind |-> "return", text |-> text, attempts |-> n, cls |-> "", msg |-> ""]

ChatRaise(cls, msg, n) ==
    [kind |-> "raise", text |-> <<>>, attempts |-> n, cls |-> cls, msg |-> msg]

ChatContinue(n) ==
    [kind |-> "continue", text |-> <<>>, attempts |-> n, cls |-> "", msg |-> ""]

\* a plausible slip: the loop sleeps and continues after its last attempt too
RetryAllowed_always(attempt) == TRUE

\* the test `attempt < config.retries` that guards every sleep-and-continue
RetryAllowed(attempt) == attempt < retries

\* one iteration of the retry loop: attempt number `attempt` ended in outcome o
AttemptStep(attempt, o) ==
    IF o.kind = "status"
    THEN IF o.status \in RETRYABLE_STATUS_CODES /\ RetryAllowed(attempt)
         THEN ChatContinue(attempt)
         ELSE ChatRaise("OpenRouterError", "OpenRouter HTTP " \o ToString(o.status), attempt)
    ELSE IF o.kind \in {"timeout", "transport_error"}
    THEN IF RetryAllowed(attempt)
         THEN ChatContinue(attempt)
         ELSE ChatRaise("OpenRouterError", "OpenRouter request failed", attempt)
    ELSE IF o.kind = "other_error"
    THEN ChatRaise("TooManyRedirects", "Exceeded maximum allowed redirects.", attempt)
    ELSE IF o.kind = "ok_invalid_json"
    THEN IF RetryAllowed(attempt)
         THEN ChatContinue(attempt)
         ELSE ChatRaise("OpenRouterError", "OpenRouter returned invalid JSON", attempt)
    ELSE IF o.kind = "ok_not_mapping"
    THEN ChatRaise("AttributeError", "'list' object has no attribute 'get'", attempt)
    ELSE IF o.kind = "ok_missing_content"
    THEN ChatRaise("OpenRouterError", "OpenRouter response missing content", attempt)
    ELSE ChatReturn(o.text, attempt)

\* the backoff slept before attempt number n + 1: backoff_factor doubled n - 1 times
RECURSIVE Backoff(_)
Backoff(n) == IF n <= 1 THEN backoff_factor ELSE 2 * Backoff(n - 1)

\* chat_completion when its attempts end in outcomes[1], outcomes[2], ...
RECURSIVE chat_completion_from(_, _)
chat_completion_from(outcomes, attempt) ==
    LET step == AttemptStep(attempt, outcomes[attempt])
    IN  IF step.kind = "continue" /\ attempt < Len(outcomes)
        THEN chat_completion_from(outcomes, attempt + 1)
        ELSE step

chat_completion(outcomes) == chat_completion_from(outcomes, 1)

----------------------------------------------------------------------------
(* wx/forecaster.py : Forecaster *)

DEFAULT_OPENROUTER_MODEL == "openrouter/auto"

\* provider identifiers are kept split at ":" : "offline" is <<"offline">>,
\* "fallback:RuntimeError" is <<"fallback", "RuntimeError">>
Provider1(a) == <<a>>

Provider2(a, b) == <<a, b>>

StartsWith(provider, prefix) == Len(provider) >= 1 /\ provider[1] = prefix

\* provider.startswith("fallback:")
StartsWithFallbackColon(provider) == Len(provider) >= 2 /\ provider[1] = "fallback"

FALLBACK_BOTTOM_LINE ==
    "Bottom line: wx requires an AI provider configured to deliver a full forecast."

Payload(query, pack, intent, verbose, explain) ==
    [intent |-> intent, verbose |-> verbose, explain_mode |-> explain,
     feature_pack |-> pack, query |-> query]

\* " | ".join(parts), kept as the list of parts
_compose_prompt_summary(query, intent, verbose, explain) ==
    <<intent, query>> \o (IF verbose THEN <<"verbose">> ELSE <<>>)
                      \o (IF explain THEN <<"explain">> ELSE <<>>)

NoMeta == [kind |-> "none", error |-> "", attempts |-> 0]

ErrorMeta(msg) == [kind |-> "error", error |-> msg, attempts |-> 0]

ModelMeta(kind, n) == [kind |-> kind, error |-> "", attempts |-> n]

ProviderText(text) == [src |-> "provider", lines |-> text]

SectionsJson == [src |-> "sections", lines |-> <<>>]

\* raw_text or json.dumps(sections): raw_text is an Optional string
RawTextOr(raw_text) ==
    IF raw_text = None \/ raw_text = Some("") THEN SectionsJson
    ELSE [src |-> "exception", lines |-> raw_text]

ForecasterResponse(sections, confidence, used, bottom_line, raw_text, provider, prompt_summary, meta) ==
    [sections |-> sections, confidence |-> confidence, used_feature_fields |-> used,
     bottom_line |-> bottom_line, raw_text |-> raw_text, provider |-> provider,
     prompt_summary |-> prompt_summary, meta |-> meta]

\* a plausible slip: the fallback reports the default confidence of a parsed reply
FallbackConfidence_default == [value |-> 30, rationale |-> "Offline fallback."]

FallbackConfidence == [value |-> 25, rationale |-> "Offline fallback."]

\* _fallback_response with raw_text already resolved to what is stored
FallbackWith(pl, provider, prompt_summary, raw, meta) ==
    LET pack == pl.feature_pack
        used_fields  == _enumerate_feature_fields(pack)
        summary ==
            IF pl.explain_mode
            THEN <<"Explain mode: describing which Feature Pack inputs were available and how they would influence a forecast.">>
            ELSE <<"wx is operating with limited connectivity and cannot reach AI services.",
                   "Responding with a conservative qualitative outlook based on provided context only.">>
        sections == [summary |-> summary, assumptions |-> Assumptions(used_fields)]
    IN  ForecasterResponse(sections, FallbackConfidence, used_fields,
                           FALLBACK_BOTTOM_LINE, raw, provider, prompt_summary, meta)

_fallback_response(pl, provider, prompt_summary, raw_text, meta) ==
    FallbackWith(pl, provider, prompt_summary, RawTextOr(raw_text), meta)

\* _strip_fence(text): drop a leading and a trailing fence line
_strip_fence(text) ==
    LET lines1 == IF Len(text) > 0 /\ text[1] = Fence THEN Tail(text) ELSE text
    IN  IF Len(lines1) > 0 /\ lines1[Len(lines1)] = Fence
        THEN SubSeq(lines1, 1, Len(lines1) - 1)
        ELSE lines1

\* json.loads(cleaned): the kind of document, "invalid" for JSONDecodeError
json_loads(cleaned) ==
    IF Len(cleaned) = 1 /\ cleaned[1] \in BodyKinds THEN cleaned[1] ELSE "invalid"

\* the cleaned text that _parse_response hands to json.loads
Cleaned(raw_text) ==
    IF Len(raw_text) > 0 /\ raw_text[1] = Fence THEN _strip_fence(raw_text) ELSE raw_text

\* _parse_response raises AttributeError on data.get when data is not a dict
ParseRaises(raw_text) == json_loads(Cleaned(raw_text)) = "non_object"

ParseErrorPayload == Payload("", <<>>, "parse_error", FALSE, FALSE)

_parse_response(raw_text, prompt_summary, provider, meta) ==
    LET data == json_loads(Cleaned(raw_text))
    IN  IF data = "invalid"
        THEN FallbackWith(ParseErrorPayload, Provider2("fallback", "unparseable"),
                          prompt_summary, ProviderText(raw_text), meta)
        ELSE IF data = "object"
        THEN ForecasterResponse(
                 [summary |-> <<"Model summary.">>, assumptions |-> <<"Model assumptions.">>],
                 [value |-> 88, rationale |-> "model"], <<"units">>,
                 "Model bottom line.", ProviderText(raw_text), provider, prompt_summary, meta)
        ELSE ForecasterResponse(
                 [summary |-> <<>>, assumptions |-> <<>>],
                 [value |-> 30, rationale |-> "Model confidence not supplied."], <<>>,
                 "No bottom line provided.", ProviderText(raw_text), provider, prompt_summary, meta)

\* what _call_gemini can end in: stripped text, None (no text attribute), or
\* RuntimeError (library missing, client or call failure)
GeminiOutcomes ==
    {[kind |-> "text", text |-> t] : t \in Texts}
        \cup {[kind |-> "none", text |-> <<>>], [kind |-> "RuntimeError", text |-> <<>>]}

GeminiRuntimeErrorText == "gemini-call:failed"

\* the errors list of _invoke_provider after the primary call
ErrorsAfterPrimary(cr) ==
    IF cr # None /\ cr[1].kind = "raise" /\ cr[1].cls = "OpenRouterError"
    THEN <<"openrouter:" \o cr[1].msg>>
    ELSE <<>>

\* the errors list of _invoke_provider after the secondary call
ErrorsAfterSecondary(errors, gr) ==
    IF gr = None THEN errors
    ELSE IF gr[1].kind = "none" THEN Append(errors, "gemini:no-response")
    ELSE IF gr[1].kind = "RuntimeError"
         THEN Append(errors, "gemini:" \o GeminiRuntimeErrorText)
    ELSE errors

\* reason = "; ".join(errors) if errors else "no-provider-configured"
Reason(errors) == IF Len(errors) > 0 THEN Join(errors, "; ") ELSE "no-provider-configured"

InvokeReturn(text, provider, meta) ==
    [kind |-> "return", text |-> text, provider |-> provider, meta |-> meta,
     cls |-> "", msg |-> ""]

InvokeRaise(cls, msg) ==
    [kind |-> "raise", text |-> <<>>, provider |-> <<>>, meta |-> NoMeta,
     cls |-> cls, msg |-> msg]

\* _invoke_provider: cr is the result of the chat_completion call (None when
\* no OpenRouter key is configured), gr the outcome of _call_gemini (None
\* when it is not called)
_invoke_provider(cr, gr) ==
    IF cr # None /\ cr[1].kind = "return"
    THEN InvokeReturn(cr[1].text, Provider2("openrouter", DEFAULT_OPENROUTER_MODEL),
                      ModelMeta("openrouter", cr[1].attempts))
    ELSE IF cr # None /\ cr[1].cls # "OpenRouterError"
    THEN InvokeRaise(cr[1].cls, cr[1].msg)
    ELSE IF gr # None /\ gr[1].kind = "text"
    THEN InvokeReturn(gr[1].text, Provider1("gemini"), ModelMeta("gemini", 0))
    ELSE InvokeRaise("RuntimeError",
                     Reason(ErrorsAfterSecondary(ErrorsAfterPrimary(cr), gr)))

\* the try/except of Forecaster.generate around _invoke_provider and
\* _parse_response, for a call that is not offline
GenerateOnline(pl, prompt_summary, cr, gr) ==
    LET r == _invoke_provider(cr, gr)
    IN  IF r.kind = "raise"
        THEN _fallback_response(pl, Provider2("fallback", r.cls), prompt_summary,
                                Some(r.msg), ErrorMeta(r.msg))
        ELSE IF ParseRaises(r.text)
        THEN _fallback_response(pl, Provider2("fallback", "AttributeError"),
                                prompt_summary,
                                Some("'list' object has no attribute 'get'"),
                                ErrorMeta("'list' object has no attribute 'get'"))
        ELSE _parse_response(r.text, prompt_summary, r.provider, r.meta)

\* a plausible slip: the offline check is missing and the chain is tried
generate_ignoring_offline(offline, pl, cr, gr) ==
    GenerateOnline(pl,
                   _compose_prompt_summary(pl.query, pl.intent,
                                           pl.verbose, pl.explain_mode),
                   cr, gr)

\* Forecaster.generate
generate(offline, pl, cr, gr) ==
    LET prompt_summary == _compose_prompt_summary(pl.query, pl.intent,
                                                  pl.verbose, pl.explain_mode)
    IN  IF offline
        THEN _fallback_response(pl, Provider1("offline"), prompt_summary, None, NoMeta)
        ELSE GenerateOnline(pl, prompt_summary, cr, gr)

\* the payload that Forecaster.explain hands to generate
ExplainPayload(question, pack, command) ==
    Payload(question, pack, "explain:" \o command, TRUE, TRUE)

\* a plausible slip: every provider that is not "offline" counts as online
ExplainMode_no_fallback(provider) ==
    IF StartsWith(provider, "offline") THEN "offline" ELSE "online"

\* Forecaster.explain, lines 338-344: the mode is read off the provider id
ExplainMode(provider) ==
    IF StartsWith(provider, "openrouter") \/ StartsWith(provider, "gemini") THEN "online"
    ELSE IF StartsWith(provider, "offline") THEN "offline"
    ELSE "fallback"

\* Forecaster.explain, lines 338-362, applied to the response of generate;
\* `response.provider or "offline"` replaces an empty provider id
ExplainResult(resp) ==
    LET provider == IF resp.provider \in {<<>>, <<"">>} THEN Provider1("offline")
                    ELSE resp.provider
    IN  [mode |-> ExplainMode(provider), provider |-> provider, response |-> resp]

\* Forecaster.explain
explain(offline, question, pack, command, cr, gr) ==
    ExplainResult(generate(offline, ExplainPayload(question, pack, command), cr, gr))

----------------------------------------------------------------------------
(* Forecaster.generate as a step machine: the offline check, the primary
   call's HTTP attempts, the secondary call, and the return *)

Settings(offline, trust_tools, privacy_mode, openrouter_api_key, gemini_api_key) ==
    [offline |-> offline, trust_tools |-> trust_tools, privacy_mode |-> privacy_mode,
     openrouter_api_key |-> openrouter_api_key, gemini_api_key |-> gemini_api_key]

\* _unit_pack(units): the same three subkeys for imperial and metric
_unit_pack == DictOf(<<"temp", "wind", "precip">>)

\* _base_feature_pack()
_base_feature_pack == <<[key |-> "units", value |-> _unit_pack]>>

PlaceValue(tz) ==
    DictVal(<<Entry("input", <<"v">>), Entry("resolved", <<"v">>), Entry("lat", <<"v">>),
              Entry("lon", <<"v">>), Entry("tz", tz)>>)

\* FeaturePacks handed to generate: the base pack, a pack with a place and
\* alerts, and every pack of at most one arbitrary section
ChainPacks ==
    {_base_feature_pack,
     _base_feature_pack \o <<[key |-> "place", value |-> PlaceValue(<<"v">>)],
                             [key |-> "alerts_quick", value |-> ListVal(<<<<"a">>>>)]>>}
        \cup {fp \in FeaturePacks : Len(fp) <= 1}

OnlinePacks ==
    {_base_feature_pack,
     _base_feature_pack \o <<[key |-> "place", value |-> PlaceValue(<<"v">>)],
                             [key |-> "alerts_quick", value |-> ListVal(<<<<"a">>>>)]>>}

ForecasterIdle ==
    /\ payload = None
    /\ fpc = "idle"
    /\ attempts = 0
    /\ slept = <<>>
    /\ http_log = <<>>
    /\ chat = None
    /\ gemini = None
    /\ calls = <<>>
    /\ response = None
    /\ explained = None
    /\ epc = "idle"

\* a generate call with arbitrary arguments
ForecasterInit ==
    /\ settings \in {Settings(o, FALSE, TRUE, k1, k2) : o, k1, k2 \in BOOLEAN}
    /\ \E fp \in (IF settings.offline THEN ChainPacks ELSE OnlinePacks),
          intent \in (IF settings.offline THEN {"question", "forecast"} ELSE {"forecast"}),
          verbose \in (IF settings.offline THEN BOOLEAN ELSE {FALSE}),
          explain_mode \in BOOLEAN :
           payload \in {Some(Payload("q", fp, intent, verbose, explain_mode)),
                        Some(ExplainPayload("q", fp, "forecast"))}
    /\ fpc = "start"
    /\ attempts = 0
    /\ slept = <<>>
    /\ http_log = <<>>
    /\ chat = None
    /\ gemini = None
    /\ calls = <<>>
    /\ response = None
    /\ explained = None
    /\ epc = "idle"

\* generate, lines 109-112: offline returns the fallback at once
GenerateOffline ==
    /\ fpc = "start"
    /\ settings.offline
    /\ response' = Some(generate(TRUE, payload[1], None, None))
    /\ fpc' = "done"
    /\ UNCHANGED <<statsVars, alertVars, fbVars, handlerVars, worldVars, envVars, epc, explained, payload, attempts, slept, http_log, chat, gemini, calls>>

\* _invoke_provider, lines 127-131: chat_completion is called iff a key is set
BuildConfig ==
    /\ fpc = "start"
    /\ ~settings.offline
    /\ IF settings.openrouter_api_key
       THEN fpc' = "primary" /\ calls' = Append(calls, "openrouter")
       ELSE fpc' = "secondary" /\ calls' = calls
    /\ UNCHANGED <<statsVars, alertVars, fbVars, handlerVars, worldVars, envVars, epc, explained, payload, attempts, slept, http_log, chat, gemini, response>>

\* a plausible slip: the secondary provider is tried whatever the primary did
AfterPrimary_always_secondary(step) == "secondary"

\* _invoke_provider, lines 132-148, once chat_completion has ended: its text is
\* returned to generate, an OpenRouterError is recorded and the secondary
\* provider is next, any other exception leaves _invoke_provider
AfterPrimary(step) ==
    IF step.kind = "return" THEN "parse"
    ELSE IF step.cls = "OpenRouterError" THEN "secondary"
    ELSE "except"

\* one iteration of chat_completion's retry loop
HttpAttempt ==
    /\ fpc = "primary"
    /\ attempts < retries
    /\ \E o \in HttpOutcomes :
           LET n    == attempts + 1
               step == AttemptStep(n, o)
           IN  /\ attempts' = n
               /\ http_log' = Append(http_log, o)
               /\ IF step.kind = "continue"
                  THEN /\ slept' = Append(slept, Backoff(n))
                       /\ chat' = chat
                       /\ fpc' = "primary"
                  ELSE /\ slept' = slept
                       /\ chat' = Some(step)
                       /\ fpc' = AfterPrimary(step)
    /\ UNCHANGED <<statsVars, alertVars, fbVars, handlerVars, worldVars, envVars, epc, explained, payload, gemini, calls, response>>

\* _invoke_provider, lines 150-158: the secondary call
CallGemini ==
    /\ fpc = "secondary"
    /\ settings.gemini_api_key
    /\ \E g \in GeminiOutcomes :
           /\ gemini' = Some(g)
           /\ fpc' = IF g.kind = "text" THEN "parse" ELSE "except"
    /\ calls' = Append(calls, "gemini")
    /\ UNCHANGED <<statsVars, alertVars, fbVars, handlerVars, worldVars, envVars, epc, explained, payload, attempts, slept, http_log, chat, response>>

\* _invoke_provider, lines 160-161: no secondary credential
NoSecondary ==
    /\ fpc = "secondary"
    /\ ~settings.gemini_api_key
    /\ fpc' = "except"
    /\ UNCHANGED <<statsVars, alertVars, fbVars, handlerVars, worldVars, envVars, epc, explained, payload, attempts, slept, http_log, chat, gemini, calls, response>>

\* generate, lines 116-124: parse the text, or turn the exception into a fallback
GenerateReturn ==
    /\ fpc \in {"parse", "except"}
    /\ response' = Some(generate(FALSE, payload[1], chat, gemini))
    /\ fpc' = "done"
    /\ UNCHANGED <<statsVars, alertVars, fbVars, handlerVars, worldVars, envVars, epc, explained, payload, attempts, slept, http_log, chat, gemini, calls>>

\* the generate call was made by Forecaster.explain
IsExplainCall == payload # None /\ payload[1] = ExplainPayload("q", payload[1].feature_pack, "forecast")

\* Forecaster.explain, lines 338-362: generate has returned to explain
ExplainReturn ==
    /\ fpc = "done"
    /\ IsExplainCall
    /\ explained' = Some(ExplainResult(response[1]))
    /\ fpc' = "explained"
    /\ UNCHANGED <<statsVars, alertVars, fbVars, handlerVars, worldVars, envVars, epc, payload, attempts, slept, http_log, chat, gemini, calls, response>>

----------------------------------------------------------------------------
(* wx/fetchers.py : what the adapters called by the handlers return *)

\* an adapter call ends by returning a value or by raising
AdapterReturn(value) == [kind |-> "return", value |-> value, text |-> ""]

AdapterRaise(text) == [kind |-> "raise", value |-> NoneVal, text |-> text]

\* str(exc) of the exceptions that escape an adapter
ErrTexts == {"'list' object has no attribute 'get'"}

\* get_point_context: None, or a dict whose tz is None, a zone name, or a name
\* that zoneinfo does not know
get_point_context_results ==
    {NoneVal, PlaceValue(<<>>), PlaceValue(<<"Europe/Paris">>), PlaceValue(<<"Not/AZone">>)}

\* get_quick_obs: None or a dict with its seven keys
get_quick_obs_results ==
    {NoneVal, DictOf(<<"temp", "feels_like", "wind", "gust", "precip_last_hr",
                       "vis_km", "ceiling_m">>)}

\* get_quick_profile: None or a dict with its six keys
get_quick_profile_results ==
    {NoneVal, DictOf(<<"cape_jkg", "cin_jkg", "shear06_kt", "pwat_in", "lcl_m",
                       "lapse_700_500_cpkm">>)}

\* get_quick_alerts: a list, possibly empty, of alert dicts
get_quick_alerts_results == {ListVal(<<>>), ListVal(<<<<"Heat Advisory">>>>)}

AdapterResults(name) ==
    IF name = "point_context" THEN get_point_context_results
    ELSE IF name = "quick_obs" THEN get_quick_obs_results
    ELSE IF name = "quick_profile" THEN get_quick_profile_results
    ELSE get_quick_alerts_results

\* every adapter returns None or [] at once when offline is set
OfflineResult(name) == IF name = "quick_alerts" THEN ListVal(<<>>) ELSE NoneVal

AdapterOutcomes(name, offline) ==
    IF offline THEN {AdapterReturn(OfflineResult(name))}
    ELSE {AdapterReturn(v) : v \in AdapterResults(name)}
             \cup {AdapterRaise(t) : t \in ErrTexts}

----------------------------------------------------------------------------
(* wx/orchestrator.py : Orchestrator *)

\* fetchers.FetchResult without the elapsed time
FetchResult(name, succeeded, detail) ==
    [name |-> name, succeeded |-> succeeded, detail |-> detail]

Fetched(res, entry, exc) == [result |-> res, entry |-> entry, raised |-> exc]

\* a plausible slip: no try/except, the adapter's exception leaves the handler
_maybe_fetch_uncaught(name, outcome) ==
    IF outcome.kind = "return"
    THEN Fetched(outcome.value, FetchResult(name, ~IsEmptyValue(outcome.value), None), "")
    ELSE Fetched(NoneVal, FetchResult(name, FALSE, Some(outcome.text)), "Exception")

\* a plausible slip: every returned result counts as a success
_maybe_fetch_always_succeeded(name, outcome) ==
    IF outcome.kind = "return"
    THEN Fetched(outcome.value, FetchResult(name, TRUE, None), "")
    ELSE Fetched(NoneVal, FetchResult(name, FALSE, Some(outcome.text)), "")

\* a plausible slip: the exception text is dropped
_maybe_fetch_no_detail(name, outcome) ==
    IF outcome.kind = "return"
    THEN Fetched(outcome.value, FetchResult(name, ~IsEmptyValue(outcome.value), None), "")
    ELSE Fetched(NoneVal, FetchResult(name, FALSE, None), "")

\* _maybe_fetch(name, func, timings, debug_info) when func() ends in `outcome`:
\* the result handed back, the FetchResult appended to debug_info["fetchers"],
\* and the exception that leaves it (none: every Exception is caught)
_maybe_fetch(name, outcome) ==
    IF outcome.kind = "return"
    THEN Fetched(outcome.value, FetchResult(name, ~IsEmptyValue(outcome.value), None), "")
    ELSE Fetched(NoneVal, FetchResult(name, FALSE, Some(outcome.text)), "")

\* value.get(k) of a dict value: the entry's val, <<>> when absent or None
SubGet(value, k) ==
    IF \E i \in 1..Len(value.entries) : value.entries[i].key = k
    THEN value.entries[CHOOSE i \in 1..Len(value.entries) : value.entries[i].key = k].val
    ELSE <<>>

\* the zone names zoneinfo.ZoneInfo accepts
KnownZones == {"Europe/Paris"}

\* _build_window(place_info, when_text, horizon), for a start time whose end
\* is within datetime's range: start_iso, end_iso and horizon, and the local
\* times when the place has a tz that ZoneInfo accepts
_build_window(place) ==
    LET tz_name == IF place.kind = "dict" THEN SubGet(place, "tz") ELSE <<>>
    IN  DictOf(<<"start_iso", "end_iso", "horizon">> \o
               (IF tz_name # <<>> /\ tz_name[1] \in KnownZones
                THEN <<"start_local", "end_local", "timezone">>
                ELSE <<>>))

Commands == {"forecast", "risk", "alerts", "question", "story"}

\* a request: the command and the options that shape the FeaturePack
Request(command, focus, verbose, hazards, ai) ==
    [command |-> command, focus |-> focus, verbose |-> verbose,
     hazards |-> hazards, ai |-> ai]

Requests ==
    {Request("forecast", f, v, <<>>, FALSE) : f \in {None, Some("wind")}, v \in BOOLEAN}
        \cup {Request("risk", None, v, h, FALSE) : v \in BOOLEAN, h \in {<<>>, <<"wind", "hail">>}}
        \cup {Request("alerts", None, FALSE, <<>>, a) : a \in BOOLEAN}
        \cup {Request("question", None, v, <<>>, FALSE) : v \in BOOLEAN}
        \cup {Request("story", None, v, <<>>, FALSE) : v \in BOOLEAN}

\* the section a fetch fills
SectionOf(name) ==
    IF name = "point_context" THEN "place"
    ELSE IF name = "quick_obs" THEN "obs_quick"
    ELSE IF name = "quick_profile" THEN "profile_quick"
    ELSE "alerts_quick"

\* a plausible slip: the section is stored whatever the value is
PutIfTruthy_unconditional(pack, key, value) == Put(pack, key, value)

\* if value: feature_pack[key] = value
PutIfTruthy(pack, key, value) ==
    IF Truthy(value) THEN Put(pack, key, value) ELSE pack

\* the guard of the fetches beyond location resolution (lat and lon of a
\* resolved place are always floats)
QuickGate(command, place, trust_tools) ==
    /\ Truthy(place)
    /\ (command = "alerts" \/ trust_tools)

\* where a handler goes after resolving the place
AfterPointContext(command, place, trust_tools) ==
    IF ~QuickGate(command, place, trust_tools) THEN "context"
    ELSE IF command \in {"forecast", "story"} THEN "quick_obs"
    ELSE "quick_alerts"

\* handle_forecast, lines 187-193
ForecastUserContext(req) ==
    LET constraints == (IF req.focus # None THEN <<"focus:" \o req.focus[1]>> ELSE <<>>)
                           \o (IF req.verbose THEN <<"verbose">> ELSE <<>>)
    IN  DictVal(<<Entry("use_case", <<"forecast">>)>> \o
                (IF req.focus # None \/ req.verbose
                 THEN <<Entry("constraints", constraints)>>
                 ELSE <<>>))

\* handle_risk, lines 247-250
RiskUserContext(req) ==
    DictVal(<<Entry("constraints", <<"hazards:" \o Join(req.hazards, ",")>>)>>)

\* the FeaturePack after the user-context step of a handler
WithUserContext(pack, req) ==
    IF req.command = "forecast"
    THEN PutIfTruthy(pack, "user_context", ForecastUserContext(req))
    ELSE IF req.command = "risk" /\ Len(req.hazards) > 0
    THEN Put(pack, "user_context", RiskUserContext(req))
    ELSE pack

\* _alerts_response(place, alerts)
_alerts_response(alertsVal) ==
    LET records == alertsVal.entries
    IN  ForecasterResponse(
            [summary |-> IF Len(records) > 0 THEN <<"active alerts near place.">>
                         ELSE <<"No active alerts found for place at this time.">>,
             assumptions |-> IF Len(records) > 0 THEN <<"Alerts feed is up to date.">>
                             ELSE <<"No AI triage performed.">>],
            [value |-> IF Len(records) > 0 THEN 60 ELSE 40,
             rationale |-> "Derived from alert feed."],
            IF Len(records) > 0 THEN <<"alerts_quick">> ELSE <<>>,
            IF Len(records) > 0 THEN "Bottom line: monitor these alerts."
            ELSE "Bottom line: no alerts currently active.",
            SectionsJson, Provider1("alerts-manual"), <<"alerts", "place">>,
            ModelMeta("records", Len(records)))

\* the intent a handler passes to Forecaster.generate
IntentOf(command) == IF command = "story" THEN "storytelling" ELSE command

\* the type of the value a handler returns
ResultType(command) == IF command = "story" THEN "StoryResult" ELSE "OrchestrationResult"

\* a plausible slip: the privacy check is missing and the payload is written
save_last_query_ignoring_privacy(old, privacy_mode, command, question, pack) ==
    Some([command |-> command, question |-> question, feature_pack |-> pack])

\* Settings.save_last_query(payload): a no-op in privacy mode
save_last_query(old, privacy_mode, command, question, pack) ==
    IF privacy_mode THEN old
    ELSE Some([command |-> command, question |-> question, feature_pack |-> pack])

\* the results of chat_completion a handler's generate call can meet
HandlerChats(openrouter_api_key) ==
    IF openrouter_api_key
    THEN {Some(ChatReturn(<<b>>, 1)) : b \in BodyKinds}
             \cup {Some(ChatRaise("OpenRouterError", "OpenRouter HTTP 401", 1)),
                   Some(ChatRaise("OpenRouterError", "OpenRouter HTTP 429", retries)),
                   Some(ChatRaise("OpenRouterError", "OpenRouter response missing content", 1)),
                   Some(ChatRaise("AttributeError", "'list' object has no attribute 'get'", 1))}
    ELSE {None}

\* the outcomes of _call_gemini a handler's generate call can meet
HandlerGeminis(cr, gemini_api_key) ==
    IF gemini_api_key /\ (cr = None \/ (cr[1].kind = "raise" /\ cr[1].cls = "OpenRouterError"))
    THEN {Some([kind |-> "text", text |-> <<"object">>]),
          Some([kind |-> "text", text |-> <<"invalid">>]),
          Some([kind |-> "none", text |-> <<>>]),
          Some([kind |-> "RuntimeError", text |-> <<>>])}
    ELSE {None}

\* the variables no handler step changes, but for `response`
otherVars == <<statsVars, alertVars, fbVars, worldVars, envVars, epc, explained, payload, fpc, attempts,
               slept, http_log, chat, gemini, calls>>

HandlerIdle ==
    /\ hpc = "idle"
    /\ request = None
    /\ feature_pack = <<>>
    /\ place_info = NoneVal
    /\ alerts_fetched = ListVal(<<>>)
    /\ fetchers = <<>>
    /\ adapter_log = <<>>
    /\ returned = ""
    /\ raised = ""
    /\ saved = None

\* an Orchestrator built on any Settings, before its first request
OrchestratorInit ==
    /\ settings \in {Settings(o, t, p, k1, k2) : o, t, p, k1, k2 \in BOOLEAN}
    /\ HandlerIdle

\* entry of a handler: the base FeaturePack and empty timings/debug_info
BeginRequest ==
    /\ hpc = "idle"
    /\ \E req \in Requests :
           /\ request' = Some(req)
           /\ hpc' = IF req.command = "question" THEN "generate" ELSE "point_context"
    /\ feature_pack' = _base_feature_pack
    /\ fetchers' = <<>>
    /\ adapter_log' = <<>>
    /\ UNCHANGED <<place_info, alerts_fetched, returned, raised, saved, response, otherVars>>

\* one _maybe_fetch call and the `if result:` that follows it
FetchStep(name, next_pc) ==
    \E outcome \in AdapterOutcomes(name, settings.offline) :
        LET f == _maybe_fetch(name, outcome)
        IN  /\ adapter_log' = Append(adapter_log, [name |-> name, outcome |-> outcome])
            /\ fetchers' = Append(fetchers, f.entry)
            /\ IF f.raised # ""
               THEN /\ raised' = f.raised
                    /\ hpc' = "raised"
                    /\ UNCHANGED <<feature_pack, place_info, alerts_fetched>>
               ELSE /\ raised' = raised
                    /\ hpc' = next_pc
                    /\ feature_pack' = PutIfTruthy(feature_pack, SectionOf(name), f.result)
                    /\ place_info' = IF name = "point_context" THEN f.result ELSE place_info
                    /\ alerts_fetched' = IF name = "quick_alerts" /\ Truthy(f.result)
                                         THEN f.result ELSE alerts_fetched

\* the point_context fetch of handle_forecast/risk/alerts/story, with the
\* window that handle_forecast and handle_story build right after it
FetchPointContext ==
    /\ hpc = "point_context"
    /\ \E outcome \in AdapterOutcomes("point_context", settings.offline) :
           LET f    == _maybe_fetch("point_context", outcome)
               cmd  == request[1].command
               pack == PutIfTruthy(feature_pack, "place", f.result)
           IN  /\ adapter_log' = Append(adapter_log, [name |-> "point_context", outcome |-> outcome])
               /\ fetchers' = Append(fetchers, f.entry)
               /\ IF f.raised # ""
                  THEN /\ raised' = f.raised
                       /\ hpc' = "raised"
                       /\ UNCHANGED <<feature_pack, place_info>>
                  ELSE /\ raised' = raised
                       /\ place_info' = f.result
                       /\ feature_pack' =
                              IF cmd \in {"forecast", "story"}
                              THEN PutIfTruthy(pack, "window", _build_window(f.result))
                              ELSE pack
                       /\ hpc' = AfterPointContext(cmd, f.result, settings.trust_tools)
    /\ UNCHANGED <<request, alerts_fetched, returned, saved, response, otherVars>>

\* the position of a handler whose call of adapter `name` is in flight
InFlight(name) == name \o ":call"

\* _maybe_fetch, lines 572-574: the handler thread enters func() and stays in
\* it until the adapter returns or raises
StartFetch(name) ==
    /\ hpc = name
    /\ hpc' = InFlight(name)
    /\ UNCHANGED <<request, feature_pack, place_info, alerts_fetched, fetchers, adapter_log,
                   returned, raised, saved, response, otherVars>>

StartQuickObs ==
    /\ request # None
    /\ StartFetch("quick_obs")

StartQuickProfile ==
    /\ request # None
    /\ StartFetch("quick_profile")

StartQuickAlerts ==
    /\ request # None
    /\ StartFetch("quick_alerts")

FetchQuickObs ==
    /\ hpc = InFlight("quick_obs")
    /\ FetchStep("quick_obs", "quick_profile")
    /\ UNCHANGED <<request, returned, saved, response, otherVars>>

FetchQuickProfile ==
    /\ hpc = InFlight("quick_profile")
    /\ FetchStep("quick_profile", "quick_alerts")
    /\ UNCHANGED <<request, returned, saved, response, otherVars>>

FetchQuickAlerts ==
    /\ hpc = InFlight("quick_alerts")
    /\ FetchStep("quick_alerts", "context")
    /\ UNCHANGED <<request, returned, saved, response, otherVars>>

\* the user_context section of handle_forecast and handle_risk
BuildUserContext ==
    /\ hpc = "context"
    /\ feature_pack' = WithUserContext(feature_pack, request[1])
    /\ hpc' = "generate"
    /\ UNCHANGED <<request, place_info, alerts_fetched, fetchers, adapter_log,
                   returned, raised, saved, response, otherVars>>

\* the query argument of the handler's generate call
QueryOf(command) == command \o "-query"

\* the query a handler passes to _persist_state
PersistedQuery(req, rsp) ==
    IF req.command \in {"forecast", "risk"} THEN rsp.prompt_summary
    ELSE <<QueryOf(req.command)>>

\* the response of the handler: Forecaster.generate, or for handle_alerts
\* without ai or without alerts the manual alerts response
HandlerResponse(req, cr, gr) ==
    IF req.command = "alerts" /\ ~(req.ai /\ Truthy(alerts_fetched))
    THEN _alerts_response(alerts_fetched)
    ELSE generate(settings.offline,
                  Payload(QueryOf(req.command), feature_pack, IntentOf(req.command),
                          req.verbose, FALSE),
                  cr, gr)

\* the generate call, _persist_state and the return of a handler
GenerateAndReturn ==
    /\ hpc = "generate"
    /\ \E cr \in HandlerChats(settings.openrouter_api_key) :
       \E gr \in HandlerGeminis(cr, settings.gemini_api_key) :
           LET req == request[1]
               rsp == HandlerResponse(req, cr, gr)
           IN  /\ response' = Some(rsp)
               /\ saved' = IF req.command = "alerts" THEN saved
                           ELSE save_last_query(saved, settings.privacy_mode, req.command,
                                                PersistedQuery(req, rsp), feature_pack)
               /\ returned' = ResultType(req.command)
    /\ hpc' = "done"
    /\ UNCHANGED <<request, feature_pack, place_info, alerts_fetched, fetchers,
                   adapter_log, raised, otherVars>>

\* json.loads(json.dumps(value)) of a FeaturePack value: None, lists, dicts
\* with string keys and scalars come back as values of the same kind with
\* the same items
json_dumps_loads(value) ==
    IF value.kind = "none" THEN NoneVal
    ELSE [kind |-> value.kind,
          entries |-> [i \in 1..Len(value.entries) |->
                          Entry(value.entries[i].key, value.entries[i].val)]]

\* Settings.load_last_query(): None without a state file, else the decoded
\* JSON document that save_last_query wrote
load_last_query(stored) ==
    IF stored = None THEN None
    ELSE Some([command |-> stored[1].command,
               question |-> stored[1].question,
               feature_pack |->
                   [i \in 1..Len(stored[1].feature_pack) |->
                       [key |-> stored[1].feature_pack[i].key,
                        value |-> json_dumps_loads(stored[1].feature_pack[i].value)]]])

\* the results of chat_completion that handle_explain's call can meet
ExplainChats(openrouter_api_key) ==
    IF openrouter_api_key
    THEN {Some(ChatReturn(<<"object">>, 1)),
          Some(ChatRaise("OpenRouterError", "OpenRouter HTTP 401", 1))}
    ELSE {None}

\* the outcomes of _call_gemini that handle_explain's call can meet
ExplainGeminis(cr, gemini_api_key) ==
    IF gemini_api_key /\ (cr = None \/ cr[1].kind = "raise")
    THEN {Some([kind |-> "text", text |-> <<"object">>]),
          Some([kind |-> "RuntimeError", text |-> <<>>])}
    ELSE {None}

\* handle_explain, run once a request has been served: RuntimeError when
\* nothing is saved, else Forecaster.explain on the saved FeaturePack,
\* command and question; no adapter is called
HandleExplain ==
    /\ hpc = "done"
    /\ epc = "idle"
    /\ LET loaded == load_last_query(saved)
       IN  IF loaded = None
           THEN /\ epc' = "raised"
                /\ UNCHANGED <<payload, explained>>
           ELSE \E cr \in ExplainChats(settings.openrouter_api_key) :
                \E gr \in ExplainGeminis(cr, settings.gemini_api_key) :
                    LET question == Join(loaded[1].question, " | ")
                        pack     == loaded[1].feature_pack
                        command  == loaded[1].command
                    IN  /\ payload' = Some(ExplainPayload(question, pack, command))
                        /\ explained' = Some(explain(settings.offline, question, pack,
                                                     command, cr, gr))
                        /\ epc' = "returned"
    /\ UNCHANGED <<handlerVars, response, statsVars, alertVars, fbVars, worldVars, envVars,
                   fpc, attempts, slept, http_log, chat, gemini, calls>>

----------------------------------------------------------------------------
(* wx/fetchers.py : the data-source adapters called directly, and the
   offline flag *)

\* a coordinate argument: a number (kept as an integer), NaN, an infinity,
\* or a value that is not a number
Num(v) == [kind |-> "num", v |-> v]

NotNum(kind) == [kind |-> kind, v |-> 0]

Latitudes == {Num(40), Num(91), NotNum("nan"), NotNum("str")}

Longitudes == {Num(0 - 74), Num(181), NotNum("inf")}

\* the public adapters of wx/fetchers.py
FETCHERS ==
    {"get_point_context", "get_quick_obs", "get_quick_alerts", "get_quick_profile",
     "fetch_openmeteo_points", "fetch_us_alerts", "fetch_eu_alerts",
     "get_nws_forecast_grid", "get_nws_observation_stations",
     "get_nws_latest_observation", "get_nws_hourly_forecast",
     "get_comprehensive_nws_data"}

\* the adapters that call security.validate_coordinates before anything else
VALIDATING ==
    {"get_nws_forecast_grid", "get_nws_observation_stations", "get_nws_hourly_forecast"}

\* a plausible slip: the range checks are missing
validate_coordinates_no_range(lat, lon) == lat.kind = "num" /\ lon.kind = "num"

\* security.validate_coordinates(lat, lon): TRUE when it returns, FALSE when
\* it raises ValidationError
validate_coordinates(lat, lon) ==
    /\ lat.kind = "num"
    /\ lon.kind = "num"
    /\ 0 - 90 <= lat.v /\ lat.v <= 90
    /\ 0 - 180 <= lon.v /\ lon.v <= 180

\* what each adapter returns at its `if offline:` line
OfflineValue(name) ==
    IF name \in {"get_point_context", "get_quick_obs", "get_quick_profile",
                 "get_nws_forecast_grid", "get_nws_latest_observation"}
    THEN "None"
    ELSE IF name = "get_comprehensive_nws_data" THEN "dict of None and []"
    ELSE "[]"

FetcherReturn(value, network) ==
    [kind |-> "return", value |-> value, cls |-> "", network |-> network]

FetcherRaise(cls, network) ==
    [kind |-> "raise", value |-> "", cls |-> cls, network |-> network]

\* how an adapter call that reaches the network can end
OnlineResults(name) ==
    {FetcherReturn("data", TRUE), FetcherReturn(OfflineValue(name), TRUE),
     FetcherRaise("AttributeError", TRUE)}

\* the results of one adapter call
FetcherResults(name, lat, lon, offline) ==
    IF name \in VALIDATING /\ ~validate_coordinates(lat, lon)
    THEN {FetcherRaise("ValueError", FALSE)}
    ELSE IF offline THEN {FetcherReturn(OfflineValue(name), FALSE)}
    ELSE OnlineResults(name)

AdaptersIdle == adapter = None

----------------------------------------------------------------------------
(* wx/rate_limiter.py : RateLimiter.  `limiter` holds the RateLimiter
   (calls_per_minute, burst_limit, call_times, lock), the locals of every
   thread inside wait_if_needed, the wall clock in seconds, and `recorded`,
   every time that was ever appended to call_times. *)

Threads == 1..MaxThreads

\* [t for t in times if now - t < window]
Within(times, now, window) == SelectSeq(times, LAMBDA x : now - x < window)

\* lines 68-69: the sleep for the per-minute limit (0: no sleep)
MinuteSleep(call_times, now, calls_per_minute) ==
    IF Len(call_times) >= calls_per_minute THEN 60 - (now - call_times[1]) ELSE 0

\* lines 81-82: the sleep for the burst limit (0: no sleep)
BurstSleep(recent_calls, now, burst_limit) ==
    IF Len(recent_calls) >= burst_limit THEN 10 - (now - recent_calls[1]) ELSE 0

\* a plausible slip: wait_if_needed does not take the lock
LockAvailable_unlocked(lock) == TRUE

\* line 58, with self.lock: the lock can be taken when no thread holds it
LockAvailable(lock) == lock = 0

\* the locals of a thread: its position in wait_if_needed, `now`,
\* `recent_calls`, and the clock value at which its sleep ends
Local(pc, now, recent_calls, wake) ==
    [pc |-> pc, now |-> now, recent_calls |-> recent_calls, wake |-> wake]

Outside == Local("outside", 0, <<>>, 0)

\* the RateLimiter(calls_per_minute, burst_limit) instances considered
LimiterConfigs ==
    {[calls_per_minute |-> 3, burst_limit |-> 2],
     [calls_per_minute |-> 2, burst_limit |-> 1],
     [calls_per_minute |-> 2, burst_limit |-> 3]}

\* __init__, lines 28-42
LimiterInit ==
    \E cfg \in LimiterConfigs :
        limiter = Some([calls_per_minute |-> cfg.calls_per_minute,
                        burst_limit |-> cfg.burst_limit,
                        call_times |-> <<>>,
                        lock |-> 0,
                        threads |-> [t \in Threads |-> Outside],
                        clock |-> 0,
                        started |-> 0,
                        recorded |-> <<>>])

LimiterIdle == limiter = None

limiterRest ==
    <<statsVars, alertVars, fbVars, handlerVars, worldVars, settings, adapter,
      region_summary, chainVars>>

\* time passes
Tick ==
    /\ limiter # None
    /\ limiter[1].clock + 5 <= MaxClock
    /\ limiter' = Some([limiter[1] EXCEPT !.clock = @ + 5])
    /\ UNCHANGED limiterRest

\* lines 58-65: a thread calls wait_if_needed, takes the lock, reads the
\* clock, drops the calls older than a minute and collects the recent calls
EnterWait ==
    /\ limiter # None
    /\ limiter[1].started < MaxCalls
    /\ LockAvailable(limiter[1].lock)
    /\ \E t \in Threads :
           /\ limiter[1].threads[t].pc = "outside"
           /\ LET now == limiter[1].clock
                  call_times == Within(limiter[1].call_times, now, 60)
              IN  limiter' = Some([limiter[1] EXCEPT
                                       !.lock = t,
                                       !.started = @ + 1,
                                       !.call_times = call_times,
                                       !.threads[t] = Local("minute", now,
                                                            Within(call_times, now, 10), 0)])
    /\ UNCHANGED limiterRest

\* lines 68-75: the per-minute limit; time.sleep(sleep_time) if it is reached
CheckMinute ==
    /\ limiter # None
    /\ \E t \in Threads :
           /\ limiter[1].threads[t].pc = "minute"
           /\ LET sleep_time == MinuteSleep(limiter[1].call_times, limiter[1].threads[t].now,
                                            limiter[1].calls_per_minute)
              IN  limiter' = Some([limiter[1] EXCEPT
                                       !.threads[t].pc =
                                           IF sleep_time > 0 THEN "minute_sleep" ELSE "burst",
                                       !.threads[t].wake = limiter[1].clock + sleep_time])
    /\ UNCHANGED limiterRest

\* lines 75-78: the sleep has lasted at least sleep_time; the clock is read
\* again and call_times is cleaned again
WakeMinute ==
    /\ limiter # None
    /\ \E t \in Threads :
           /\ limiter[1].threads[t].pc = "minute_sleep"
           /\ limiter[1].clock >= limiter[1].threads[t].wake
           /\ limiter' = Some([limiter[1] EXCEPT
                                   !.call_times = Within(@, limiter[1].clock, 60),
                                   !.threads[t].now = limiter[1].clock,
                                   !.threads[t].pc = "burst"])
    /\ UNCHANGED limiterRest

\* lines 81-88: the burst limit, on the recent calls collected on entry
CheckBurst ==
    /\ limiter # None
    /\ \E t \in Threads :
           /\ limiter[1].threads[t].pc = "burst"
           /\ LET sleep_time == BurstSleep(limiter[1].threads[t].recent_calls,
                                           limiter[1].threads[t].now, limiter[1].burst_limit)
              IN  limiter' = Some([limiter[1] EXCEPT
                                       !.threads[t].pc =
                                           IF sleep_time > 0 THEN "burst_sleep" ELSE "record",
                                       !.threads[t].wake = limiter[1].clock + sleep_time])
    /\ UNCHANGED limiterRest

\* line 88: the burst sleep has lasted at least sleep_time
WakeBurst ==
    /\ limiter # None
    /\ \E t \in Threads :
           /\ limiter[1].threads[t].pc = "burst_sleep"
           /\ limiter[1].clock >= limiter[1].threads[t].wake
           /\ limiter' = Some([limiter[1] EXCEPT !.threads[t].pc = "record"])
    /\ UNCHANGED limiterRest

\* line 91: the call is recorded at the current time; the lock is released
\* on leaving the with block
RecordCall ==
    /\ limiter # None
    /\ \E t \in Threads :
           /\ limiter[1].threads[t].pc = "record"
           /\ limiter' = Some([limiter[1] EXCEPT
                                   !.call_times = Append(@, limiter[1].clock),
                                   !.recorded = Append(@, limiter[1].clock),
                                   !.lock = 0,
                                   !.threads[t] = Outside])
    /\ UNCHANGED limiterRest

SummaryIdle == region_summary = None

EnvIdle == AdaptersIdle /\ SummaryIdle /\ LimiterIdle

\* an adapter about to be called with arbitrary arguments
FetcherInit ==
    \E name \in FETCHERS, lat \in Latitudes, lon \in Longitudes, offline \in BOOLEAN :
        adapter = Some([name |-> name, lat |-> lat, lon |-> lon, offline |-> offline,
                        result |-> None])

\* the adapter call
CallFetcher ==
    /\ adapter # None
    /\ adapter[1].result = None
    /\ \E res \in FetcherResults(adapter[1].name, adapter[1].lat, adapter[1].lon,
                                 adapter[1].offline) :
           adapter' = Some([adapter[1] EXCEPT !.result = Some(res)])
    /\ UNCHANGED <<statsVars, alertVars, fbVars, handlerVars, worldVars, settings,
                   region_summary, limiter, chainVars>>

----------------------------------------------------------------------------
(* wx/orchestrator.py : handle_worldview *)

\* fetchers._is_severe_weather(event): some keyword of
\* config.SEVERE_WEATHER_KEYWORDS occurs in event.lower()
_is_severe_weather(event) ==
    event \in {"Tornado Warning", "Flash Flood Warning", "Flood Watch", "flood watch",
               "Severe Thunderstorm Warning", "Flood Warning"}

SummaryEntry(event, count, areas) == [event |-> event, count |-> count, areas |-> areas]

RegionView(name, summary, region_stats, region_alerts) ==
    [name |-> name, summary |-> summary, stats |-> region_stats, alerts |-> region_alerts]

WorldviewOf(regions, samples_us, samples_eu, sources, severe) ==
    [regions |-> regions,
     meta |-> [samples_us |-> samples_us, samples_eu |-> samples_eu,
               sources |-> sources, severe_only |-> severe]]

\* _synthetic_worldview(severe_only)
_synthetic_worldview(severe) ==
    LET us_alerts ==
            IF severe
            THEN <<SummaryEntry("Tornado Warning", 2, <<"Oklahoma", "Kansas">>),
                   SummaryEntry("Flash Flood Warning", 3, <<"Texas", "Louisiana">>),
                   SummaryEntry("Severe Thunderstorm Warning", 5, <<"Nebraska", "Iowa">>)>>
            ELSE <<SummaryEntry("Heat Advisory", 3, <<"Texas", "Arizona", "New Mexico">>)>>
        eu_alerts ==
            IF severe
            THEN <<SummaryEntry("Flood Warning", 1, <<"Netherlands">>)>>
            ELSE <<SummaryEntry("Wind Warning", 2, <<"UK", "Netherlands">>)>>
        sources ==
            IF severe THEN <<"Offline synthetic data (severe weather only)">>
            ELSE <<"Offline synthetic data">>
    IN  WorldviewOf(
            <<RegionView("US", "Varied conditions coast to coast; warm South, cooler North",
                         RegionStats(Some(45), Some(85), Some(40), Some(15), Some(25)),
                         us_alerts),
              RegionView("Europe", "Mixed weather across continent; wet northwest, dry south",
                         RegionStats(Some(10), Some(25), Some(60), Some(20), Some(35)),
                         eu_alerts)>>,
            0, 0, sources, severe)

\* the four tasks handed to the executor, in submission order
FetchTasks == <<"us_obs", "eu_obs", "us_alerts", "eu_alerts">>

\* config.REGIONAL_SAMPLES, reduced: the sample points of each region
REGIONAL_SAMPLES == [us |-> [i \in 1..MaxPoints |-> i], eu |-> <<1>>]

\* the value a fetch function returns, or the exception that leaves it
TaskReturn(value) == [kind |-> "return", value |-> value, cls |-> ""]

TaskRaise(cls) == [kind |-> "raise", value |-> <<>>, cls |-> cls]

\* how the request of one sample point ends: a good payload, an HTTP error
\* status, a timeout, a body that is not JSON, or a JSON body that is not an
\* object
PointOutcomes == {"ok", "http_error", "timeout", "invalid_json", "not_mapping"}

\* the Observation built from the good payload of a point
PointObservation(point) ==
    [temp |-> Some(point % (MaxMetric + 1)),
     precip_prob |-> IF point % 2 = 0 THEN None ELSE Some(1),
     wind |-> Some(0),
     gust |-> None]

\* fetch_point(lat, lon), lines 262-294: the Observation; None for the
\* exceptions its except clause names (httpx.HTTPError, which covers error
\* statuses and timeouts, ValueError, which covers invalid JSON, KeyError);
\* data.get on a body that is not an object raises AttributeError, which the
\* clause does not name
fetch_point(point, outcome) ==
    IF outcome = "ok" THEN TaskReturn(Some(PointObservation(point)))
    ELSE IF outcome \in {"http_error", "timeout", "invalid_json"} THEN TaskReturn(None)
    ELSE TaskRaise("AttributeError")

\* a plausible slip: the points are returned as soon as the first worker is
\* done, without waiting for the others
fetch_openmeteo_points_first_done(points, outcomes, order, offline) ==
    IF offline \/ Len(points) = 0 THEN TaskReturn(<<>>)
    ELSE LET first == fetch_point(points[order[1]], outcomes[order[1]])
         IN  IF first.kind = "raise" THEN first ELSE TaskReturn(first.value)

\* fetch_openmeteo_points(points, offline=...), the points' requests ending
\* as `outcomes` and completing in the order `order`: future.result()
\* re-raises what fetch_point raised
fetch_openmeteo_points(points, outcomes, order, offline) ==
    IF offline \/ Len(points) = 0 THEN TaskReturn(<<>>)
    ELSE LET results == [k \in 1..Len(order) |->
                            fetch_point(points[order[k]], outcomes[order[k]])]
         IN  IF \E k \in 1..Len(results) : results[k].kind = "raise"
             THEN TaskRaise(results[CHOOSE k \in 1..Len(results) :
                                        /\ results[k].kind = "raise"
                                        /\ \A m \in 1..(k - 1) : results[m].kind # "raise"].cls)
             ELSE TaskReturn(Concat([k \in 1..Len(results) |-> results[k].value]))

\* the alerts of an upstream feed
AlertFeeds ==
    {<<>>,
     <<[event |-> "Tornado Warning", areas |-> <<"Texas", "Oklahoma", "Kansas">>]>>,
     <<[event |-> "Heat Advisory", areas |-> <<"Texas", "Oklahoma", "Kansas">>],
       [event |-> "Flood Watch", areas |-> <<"Texas", "Oklahoma", "Kansas">>]>>}

\* how the request of an alert feed ends: a feed of alerts, an HTTP error or
\* timeout, a body that does not parse, or (JSON feed) a body that is not an
\* object
FeedOutcome(kind, feed) == [kind |-> kind, feed |-> feed]

FeedOutcomes(task) ==
    {FeedOutcome("feed", feed) : feed \in AlertFeeds}
        \cup {FeedOutcome("http_error", <<>>), FeedOutcome("invalid_payload", <<>>)}
        \cup (IF task = "us_alerts" THEN {FeedOutcome("not_mapping", <<>>)} ELSE {})

\* a plausible slip: the severe_only filter is not applied
fetch_alerts_unfiltered(feed, severe) == feed

\* the loop of fetch_us_alerts / fetch_eu_alerts over the feed: with
\* severe_only the events that are not severe weather are skipped
fetch_alerts(feed, severe) ==
    IF severe THEN SelectSeq(feed, LAMBDA a : _is_severe_weather(a.event)) ELSE feed

\* fetch_us_alerts: [] offline and for httpx.HTTPError / ValueError;
\* data.get on a body that is not an object raises AttributeError
fetch_us_alerts(outcome, severe, offline) ==
    IF offline THEN TaskReturn(<<>>)
    ELSE IF outcome.kind \in {"http_error", "invalid_payload"} THEN TaskReturn(<<>>)
    ELSE IF outcome.kind = "not_mapping" THEN TaskRaise("AttributeError")
    ELSE TaskReturn(fetch_alerts(outcome.feed, severe))

\* fetch_eu_alerts: [] offline, for httpx.HTTPError / ValueError and for
\* ET.ParseError
fetch_eu_alerts(outcome, severe, offline) ==
    IF offline THEN TaskReturn(<<>>)
    ELSE IF outcome.kind \in {"http_error", "invalid_payload"} THEN TaskReturn(<<>>)
    ELSE TaskReturn(fetch_alerts(outcome.feed, severe))

\* what the upstream does to a fetch task: per-point outcomes, or the feed's
TaskInputs(task) ==
    IF task = "us_obs" THEN [1..Len(REGIONAL_SAMPLES.us) -> PointOutcomes]
    ELSE IF task = "eu_obs" THEN [1..Len(REGIONAL_SAMPLES.eu) -> PointOutcomes]
    ELSE FeedOutcomes(task)

\* the results a fetch task can end with on that input (the points of a
\* region complete in any order)
TaskResults(task, input, severe, offline) ==
    IF task = "us_obs"
    THEN {fetch_openmeteo_points(REGIONAL_SAMPLES.us, input, order, offline) :
              order \in IterOrders(1..Len(REGIONAL_SAMPLES.us))}
    ELSE IF task = "eu_obs"
    THEN {fetch_openmeteo_points(REGIONAL_SAMPLES.eu, input, order, offline) :
              order \in IterOrders(1..Len(REGIONAL_SAMPLES.eu))}
    ELSE IF task = "us_alerts" THEN {fetch_us_alerts(input, severe, offline)}
    ELSE {fetch_eu_alerts(input, severe, offline)}

\* a plausible slip: precipitation is mentioned from 30 on, wind from 10 on
_generate_region_summary_inclusive(region, obsList, alertList) ==
    IF Len(obsList) = 0 THEN <<"No data available for " \o region \o ".">>
    ELSE LET region_stats == _compute_region_stats(obsList)
             parts ==
                 (IF region_stats.tmin # None /\ region_stats.tmax # None
                  THEN <<"Temps">> ELSE <<>>)
                 \o (IF region_stats.pop_max # None /\ region_stats.pop_max[1] >= 30
                     THEN <<"precip chance">> ELSE <<>>)
                 \o (IF region_stats.wind_max # None /\ region_stats.wind_max[1] >= 10
                     THEN <<"winds">> ELSE <<>>)
                 \o (IF Len(alertList) > 0 THEN <<"active alerts">> ELSE <<>>)
         IN  IF Len(parts) > 0 THEN parts ELSE <<"Conditions variable">>

\* _generate_region_summary, kept as the list of parts
_generate_region_summary(region, obsList, alertList) ==
    IF Len(obsList) = 0 THEN <<"No data available for " \o region \o ".">>
    ELSE LET region_stats == _compute_region_stats(obsList)
             parts ==
                 (IF region_stats.tmin # None /\ region_stats.tmax # None
                  THEN <<"Temps">> ELSE <<>>)
                 \o (IF region_stats.pop_max # None /\ region_stats.pop_max[1] > 30
                     THEN <<"precip chance">> ELSE <<>>)
                 \o (IF region_stats.wind_max # None /\ region_stats.wind_max[1] > 10
                     THEN <<"winds">> ELSE <<>>)
                 \o (IF Len(alertList) > 0 THEN <<"active alerts">> ELSE <<>>)
         IN  IF Len(parts) > 0 THEN parts ELSE <<"Conditions variable">>

\* metric values on both sides of the thresholds of the summary
SummaryPrecip == {0, 30, 31}

SummaryWind == {0, 10, 11}

\* Observations of a region, as far as the summary reads them
SummaryObservation ==
    [temp : {None, Some(0)},
     precip_prob : {None} \cup {Some(v) : v \in SummaryPrecip},
     wind : {None} \cup {Some(v) : v \in SummaryWind},
     gust : {None}]

\* a region with up to MaxObs Observations and with or without an alert
SummaryInit ==
    /\ observations \in SeqsUpTo(SummaryObservation, MaxObs)
    /\ alerts \in {<<>>, <<[event |-> "Flood Watch", areas |-> <<"Texas", "Oklahoma", "Kansas">>]>>}
    /\ stats = None
    /\ alert_summary = None
    /\ region_summary = None

\* handle_worldview, lines 689-690: the summary of a region
GenerateRegionSummary ==
    /\ region_summary = None
    /\ \E region \in {"US", "Europe"} :
           region_summary' = Some([region |-> region,
                                   text |-> _generate_region_summary(region, observations,
                                                                     alerts)])
    /\ UNCHANGED <<statsVars, alertVars, fbVars, handlerVars, worldVars, settings, adapter,
                   limiter, chainVars>>

\* the Worldview built from the four fetch results
OnlineWorldview(us_obs, eu_obs, us_alerts, eu_alerts, severe) ==
    WorldviewOf(
        <<RegionView("US", _generate_region_summary("US", us_obs, us_alerts),
                     _compute_region_stats(us_obs), _summarize_alerts(us_alerts)),
          RegionView("Europe", _generate_region_summary("Europe", eu_obs, eu_alerts),
                     _compute_region_stats(eu_obs), _summarize_alerts(eu_alerts))>>,
        Len(us_obs), Len(eu_obs), <<"Open-Meteo", "NWS CAP", "MeteoAlarm">>, severe)

NotFetched == [task \in Range(FetchTasks) |-> None]

WorldIdle ==
    /\ wpc = "idle"
    /\ severe_only = FALSE
    /\ submitted = <<>>
    /\ fetched = NotFetched
    /\ worldview = None

\* a handle_worldview call with either value of severe_only
WorldInit ==
    /\ settings \in {Settings(o, FALSE, TRUE, FALSE, FALSE) : o \in BOOLEAN}
    /\ wpc = "start"
    /\ severe_only \in BOOLEAN
    /\ submitted = <<>>
    /\ fetched = NotFetched
    /\ worldview = None

worldRest == <<statsVars, alertVars, fbVars, handlerVars, envVars, chainVars>>

\* a plausible slip: the offline check is missing
OfflineShortCircuit_missing(offline) == FALSE

\* handle_worldview, line 653: if self.settings.offline
OfflineShortCircuit(offline) == offline

\* offline: the synthetic view is returned at once
WorldviewOffline ==
    /\ wpc = "start"
    /\ OfflineShortCircuit(settings.offline)
    /\ worldview' = Some(_synthetic_worldview(severe_only))
    /\ wpc' = "done"
    /\ UNCHANGED <<severe_only, submitted, fetched, worldRest>>

\* online: the four fetch tasks are submitted to the executor
SubmitFetches ==
    /\ wpc = "start"
    /\ ~OfflineShortCircuit(settings.offline)
    /\ submitted' = FetchTasks
    /\ wpc' = "fetching"
    /\ UNCHANGED <<severe_only, fetched, worldview, worldRest>>

\* a submitted task finishes on its worker thread
CompleteFetch ==
    /\ wpc = "fetching"
    /\ \E task \in Range(submitted) :
           /\ fetched[task] = None
           /\ \E input \in TaskInputs(task) :
              \E res \in TaskResults(task, input, severe_only, settings.offline) :
                  fetched' = [fetched EXCEPT ![task] = Some([input |-> input, res |-> res])]
    /\ UNCHANGED <<wpc, severe_only, submitted, worldview, worldRest>>

\* future.result() of some task raises
SomeTaskRaised == \E task \in Range(FetchTasks) : fetched[task][1].res.kind = "raise"

\* all four tasks are done and none raised: stats, summaries and alert
\* summaries are computed and the Worldview is returned
AssembleWorldview ==
    /\ wpc = "fetching"
    /\ \A task \in Range(FetchTasks) : fetched[task] # None
    /\ ~SomeTaskRaised
    /\ worldview' = Some(OnlineWorldview(fetched["us_obs"][1].res.value,
                                         fetched["eu_obs"][1].res.value,
                                         fetched["us_alerts"][1].res.value,
                                         fetched["eu_alerts"][1].res.value,
                                         severe_only))
    /\ wpc' = "done"
    /\ UNCHANGED <<severe_only, submitted, fetched, worldRest>>

\* lines 678-681: a future.result() re-raises the exception of its task; the
\* executor's with block waits for the other tasks and the exception leaves
\* handle_worldview
WorldviewRaises ==
    /\ wpc = "fetching"
    /\ \A task \in Range(FetchTasks) : fetched[task] # None
    /\ SomeTaskRaised
    /\ wpc' = "raised"
    /\ UNCHANGED <<severe_only, submitted, fetched, worldview, worldRest>>

----------------------------------------------------------------------------
(* Specifications.  Each one starts a part of the program and leaves the
   variables of the other parts at rest. *)

SettingsIdle == settings = Settings(TRUE, FALSE, TRUE, FALSE, FALSE)

\* the pure aggregation functions
InitStats ==
    StatsInit /\ AlertsIdle /\ FallbackIdle /\ SettingsIdle /\ ForecasterIdle
        /\ HandlerIdle /\ WorldIdle /\ EnvIdle

NextStats == ComputeRegionStats

SpecStats == InitStats /\ [][NextStats]_vars

InitAlerts ==
    AlertsInit /\ StatsIdle /\ FallbackIdle /\ SettingsIdle /\ ForecasterIdle
        /\ HandlerIdle /\ WorldIdle /\ EnvIdle

NextAlerts == SummarizeAlerts

SpecAlerts == InitAlerts /\ [][NextAlerts]_vars

\* _summarize_alerts on alerts with differing area lists
InitAreas ==
    AreaAlertsInit /\ StatsIdle /\ FallbackIdle /\ SettingsIdle /\ ForecasterIdle
        /\ HandlerIdle /\ WorldIdle /\ EnvIdle

SpecAreas == InitAreas /\ [][NextAlerts]_vars

\* the deterministic fallback called twice on one FeaturePack
InitFallback ==
    FallbackInit /\ StatsIdle /\ AlertsIdle /\ SettingsIdle /\ ForecasterIdle
        /\ HandlerIdle /\ WorldIdle /\ EnvIdle

NextFallback == FallbackFirstCall \/ FallbackSecondCall

SpecFallback == InitFallback /\ [][NextFallback]_vars

\* one Forecaster.generate call, HTTP attempt by HTTP attempt
InitChain ==
    ForecasterInit /\ StatsIdle /\ AlertsIdle /\ FallbackIdle /\ HandlerIdle /\ WorldIdle
        /\ EnvIdle

NextChain ==
    \/ GenerateOffline
    \/ BuildConfig
    \/ HttpAttempt
    \/ CallGemini
    \/ NoSecondary
    \/ GenerateReturn
    \/ ExplainReturn

SpecChain == InitChain /\ [][NextChain]_vars

\* one explain call on the base FeaturePack, run to its end: generate is
\* sequential code, so a step that can be taken is taken
InitChainFair ==
    /\ InitChain
    /\ payload = Some(ExplainPayload("q", _base_feature_pack, "forecast"))

SpecChainFair == InitChainFair /\ [][NextChain]_vars /\ WF_vars(NextChain)

\* one handle_worldview call
InitWorldview ==
    WorldInit /\ StatsIdle /\ AlertsIdle /\ FallbackIdle /\ ForecasterIdle /\ HandlerIdle
        /\ EnvIdle

NextWorldview ==
    \/ WorldviewOffline
    \/ SubmitFetches
    \/ CompleteFetch
    \/ AssembleWorldview
    \/ WorldviewRaises

SpecWorldview == InitWorldview /\ [][NextWorldview]_vars

\* one call of an adapter of wx/fetchers.py
InitFetchers ==
    FetcherInit /\ StatsIdle /\ AlertsIdle /\ FallbackIdle /\ SettingsIdle /\ ForecasterIdle
        /\ HandlerIdle /\ WorldIdle /\ SummaryIdle /\ LimiterIdle

NextFetchers == CallFetcher

SpecFetchers == InitFetchers /\ [][NextFetchers]_vars

\* the summary of one region
InitSummary ==
    SummaryInit /\ FallbackIdle /\ SettingsIdle /\ ForecasterIdle /\ HandlerIdle
        /\ WorldIdle /\ AdaptersIdle /\ LimiterIdle

NextSummary == GenerateRegionSummary

SpecSummary == InitSummary /\ [][NextSummary]_vars

\* threads calling wait_if_needed on one RateLimiter
InitLimiter ==
    LimiterInit /\ StatsIdle /\ AlertsIdle /\ FallbackIdle /\ SettingsIdle /\ ForecasterIdle
        /\ HandlerIdle /\ WorldIdle /\ AdaptersIdle /\ SummaryIdle

NextLimiter ==
    Tick \/ EnterWait \/ CheckMinute \/ WakeMinute \/ CheckBurst \/ WakeBurst \/ RecordCall

SpecLimiter == InitLimiter /\ [][NextLimiter]_vars

\* one request served by a handler of the Orchestrator
Init ==
    OrchestratorInit /\ StatsIdle /\ AlertsIdle /\ FallbackIdle /\ ForecasterIdle
        /\ WorldIdle /\ EnvIdle

Next ==
    \/ BeginRequest
    \/ FetchPointContext
    \/ StartQuickObs
    \/ FetchQuickObs
    \/ StartQuickProfile
    \/ FetchQuickProfile
    \/ StartQuickAlerts
    \/ FetchQuickAlerts
    \/ BuildUserContext
    \/ GenerateAndReturn
    \/ HandleExplain

Spec == Init /\ [][Next]_vars

----------------------------------------------------------------------------
(* C8: for every list of Observations, each RegionStats field is the
   minimum/maximum over exactly the Observations where that metric is
   non-null, and None when no Observation supplies it; an empty list gives
   every field None, exactly one non-null temperature t gives
   tmin = tmax = t, and a real 0 is reported as 0, never as None. *)
MetricSet(field) ==
    {observations[i][field][1] : i \in {j \in 1..Len(observations) : observations[j][field] # None}}

SetMin(S) == IF S = {} THEN None ELSE Some(CHOOSE m \in S : \A x \in S : m <= x)

SetMax(S) == IF S = {} THEN None ELSE Some(CHOOSE m \in S : \A x \in S : m >= x)

C8_RegionStatsExact ==
    stats # None =>
        LET s == stats[1]
            T == MetricSet("temp")
            P == MetricSet("precip_prob")
            W == MetricSet("wind")
            G == MetricSet("gust")
        IN  /\ s.tmin = SetMin(T)
            /\ s.tmax = SetMax(T)
            /\ s.pop_max = SetMax(P)
            /\ s.wind_max = SetMax(W)
            /\ s.gust_max = SetMax(G)
            /\ (Len(observations) = 0 =>
                   s = RegionStats(None, None, None, None, None))
            /\ (Cardinality({i \in 1..Len(observations) : observations[i].temp # None}) = 1
                   => s.tmin = s.tmax /\ s.tmin # None)
            /\ (T = {0} => s.tmin = Some(0) /\ s.tmax = Some(0))

\* a list whose only temperature sample is a real 0, next to a sample with none
C8_Witness ==
    /\ stats # None
    /\ Len(observations) = 2
    /\ observations[1].temp = Some(0)
    /\ observations[2].temp = None
    /\ stats[1].tmin = Some(0)
    /\ stats[1].wind_max = None

----------------------------------------------------------------------------
(* C9: for every alert list, _summarize_alerts returns at most 5 entries
   with pairwise distinct event names, and each entry's count equals the
   number of input Alerts whose event name is exactly (case-sensitively)
   equal to that entry's event. *)
C9_SummaryCounts ==
    alert_summary # None =>
        LET s == alert_summary[1]
        IN  /\ Len(s) <= 5
            /\ \A i, j \in 1..Len(s) : i # j => s[i].event # s[j].event
            /\ \A i \in 1..Len(s) :
                   s[i].count = Cardinality({k \in 1..Len(alerts) : alerts[k].event = s[i].event})

\* six distinct event names in the feed, the two case variants among them
C9_Witness ==
    /\ alert_summary # None
    /\ Cardinality({alerts[k].event : k \in 1..Len(alerts)}) = 6
    /\ Len(alert_summary[1]) = 5

----------------------------------------------------------------------------
(* C7: calling the deterministic fallback twice with the same FeaturePack
   yields identical assumptions text and identical used_feature_fields
   (same field enumeration in the same order), whatever order the set of
   field names is iterated in by either call. *)
C7_FallbackIdempotent ==
    (fb_first # None /\ fb_second # None) =>
        /\ fb_first[1].assumptions = fb_second[1].assumptions
        /\ fb_first[1].used_feature_fields = fb_second[1].used_feature_fields

\* both calls made on a FeaturePack that yields several field names
C7_Witness ==
    /\ fb_first # None
    /\ fb_second # None
    /\ Len(fb_second[1].used_feature_fields) >= 3
    /\ fb_second[1].assumptions = fb_first[1].assumptions

----------------------------------------------------------------------------
(* C1: with settings.offline = true, Forecaster.generate returns, for every
   query, intent, verbose/explain flag and FeaturePack, a response with
   provider = "offline" and confidence.value = 25, and no primary or
   secondary provider call is made during the call. *)
C1_OfflineDeterministic ==
    settings.offline =>
        /\ calls = <<>>
        /\ attempts = 0
        /\ chat = None
        /\ gemini = None
        /\ (fpc = "done" =>
               /\ response # None
               /\ response[1].provider = Provider1("offline")
               /\ response[1].confidence.value = 25)

\* an offline call that has returned, although both credentials are configured
C1_Witness ==
    /\ settings.offline
    /\ settings.openrouter_api_key
    /\ settings.gemini_api_key
    /\ fpc = "done"
    /\ response # None
    /\ response[1].provider = Provider1("offline")
    /\ Len(payload[1].feature_pack) = 3

----------------------------------------------------------------------------
\* no provider call of the generate call yielded response text
NoProviderText ==
    /\ (chat = None \/ chat[1].kind = "raise")
    /\ (gemini = None \/ gemini[1].kind # "text")

(* C3: when not offline and no configured provider yields response text
   (e.g. the primary returns HTTP 429 on every attempt and no secondary
   credential is configured), Forecaster.generate returns a response whose
   provider starts with "fallback:", whose bottom_line is the fixed fallback
   sentence and whose confidence.value is 25. *)
C3_FallbackWhenNoText ==
    (~settings.offline /\ fpc = "done" /\ NoProviderText) =>
        /\ response # None
        /\ StartsWithFallbackColon(response[1].provider)
        /\ response[1].bottom_line = FALLBACK_BOTTOM_LINE
        /\ response[1].confidence.value = 25

\* HTTP 429 on each of the three attempts, no secondary credential
C3_Witness ==
    /\ ~settings.offline
    /\ settings.openrouter_api_key
    /\ ~settings.gemini_api_key
    /\ fpc = "done"
    /\ Len(http_log) = 3
    /\ \A i \in 1..3 : http_log[i] = StatusOutcome(429)
    /\ Len(slept) = 2
    /\ response # None
    /\ response[1].provider = Provider2("fallback", "RuntimeError")

----------------------------------------------------------------------------
(* Claims about the handlers (specification Spec) *)

\* the adapter call ended with non-empty data
NonEmptyData(outcome) == outcome.kind = "return" /\ ~IsEmptyValue(outcome.value)

AdapterNames == {"point_context", "quick_obs", "quick_profile", "quick_alerts"}

\* the request being served is one of `commands`
Serving(commands) == request # None /\ request[1].command \in commands

(* C2: handle_forecast, handle_risk and handle_question never raise and
   return an OrchestrationResult, whatever the adapters (value, empty
   result, exception) and the AI providers (unconfigured, authentication
   failure, retry exhaustion, missing content, unparseable output) do:
   no exception leaves the handler, every step short of the return can be
   followed by another step, and the value returned is an
   OrchestrationResult holding a response. *)
C2_HandlersAlwaysReturn ==
    Serving({"forecast", "risk", "question"}) =>
        /\ raised = ""
        /\ hpc # "raised"
        /\ (hpc # "done" => ENABLED Next)
        /\ (hpc = "done" => returned = "OrchestrationResult" /\ response # None)

\* handle_forecast has returned although one adapter raised, one returned an
\* empty result and the only configured provider failed authentication
C2_Witness ==
    /\ Serving({"forecast"})
    /\ hpc = "done"
    /\ returned = "OrchestrationResult"
    /\ \E i \in 1..Len(adapter_log) : adapter_log[i].outcome.kind = "raise"
    /\ \E i \in 1..Len(adapter_log) :
           adapter_log[i].outcome.kind = "return" /\ IsEmptyValue(adapter_log[i].outcome.value)
    /\ settings.openrouter_api_key
    /\ ~settings.gemini_api_key
    /\ response # None
    /\ response[1].provider = Provider2("fallback", "RuntimeError")
    /\ response[1].meta = ErrorMeta("openrouter:OpenRouter HTTP 401")

(* C4: in any handler, whatever adapter calls raise or return an empty
   result, the handler does not raise, the FeaturePack has a section for
   exactly the adapters that returned non-empty data, and the diagnostics
   list has exactly one entry per adapter invocation, in order, marked
   succeeded=false for each call that raised or returned nothing. *)
C4_SectionsAndDiagnostics ==
    /\ raised = ""
    /\ Len(fetchers) = Len(adapter_log)
    /\ \A i \in 1..Len(adapter_log) :
           /\ fetchers[i].name = adapter_log[i].name
           /\ fetchers[i].succeeded = NonEmptyData(adapter_log[i].outcome)
    /\ \A name \in AdapterNames :
           HasKey(feature_pack, SectionOf(name)) <=>
               \E i \in 1..Len(adapter_log) :
                   adapter_log[i].name = name /\ NonEmptyData(adapter_log[i].outcome)

\* four adapter invocations of which one raised, one returned an empty
\* result and two returned data
C4_Witness ==
    /\ hpc = "done"
    /\ Len(adapter_log) = 4
    /\ adapter_log[2].outcome.kind = "raise"
    /\ adapter_log[3].outcome = AdapterReturn(NoneVal)
    /\ NonEmptyData(adapter_log[4].outcome)
    /\ ~fetchers[2].succeeded
    /\ ~fetchers[3].succeeded
    /\ fetchers[4].succeeded
    /\ Keys(feature_pack) = <<"units", "place", "window", "alerts_quick">>

(* C5 as stated: every diagnostic entry recorded with succeeded=false (the
   adapter raised, timed out, or returned a sentinel empty result) carries a
   non-empty error detail string. *)
C5_FailedEntryHasDetail ==
    \A i \in 1..Len(fetchers) :
        ~fetchers[i].succeeded =>
            fetchers[i].detail # None /\ fetchers[i].detail # Some("")

(* C5 amended: a diagnostic entry recorded with succeeded=false carries the
   text of the exception as its detail when the adapter raised, and no
   detail (None) when the adapter returned a sentinel empty result. *)
C5_DetailIffRaised ==
    \A i \in 1..Len(fetchers) :
        ~fetchers[i].succeeded =>
            /\ i <= Len(adapter_log)
            /\ IF adapter_log[i].outcome.kind = "raise"
               THEN fetchers[i].detail = Some(adapter_log[i].outcome.text)
               ELSE fetchers[i].detail = None

\* one failed entry for an adapter that raised and one for an adapter that
\* returned an empty result
C5_Witness ==
    /\ \E i \in 1..Len(fetchers) :
           /\ ~fetchers[i].succeeded
           /\ adapter_log[i].outcome.kind = "raise"
           /\ fetchers[i].detail = Some("'list' object has no attribute 'get'")
    /\ \E i \in 1..Len(fetchers) :
           /\ ~fetchers[i].succeeded
           /\ adapter_log[i].outcome.kind = "return"
           /\ fetchers[i].detail = None

(* C6: in every reachable state of every handler, every top-level key of the
   FeaturePack maps to a value that is neither null nor an empty list or
   map; a source that is unavailable or failed has no key. *)
C6_NoEmptySections ==
    \A i \in 1..Len(feature_pack) : ~IsEmptyValue(feature_pack[i].value)

\* a FeaturePack handed to the forecaster after the observation fetch returned
\* nothing and the alert fetch raised: neither has a key
C6_Witness ==
    /\ hpc = "generate"
    /\ \E i \in 1..Len(adapter_log) :
           adapter_log[i] = [name |-> "quick_obs", outcome |-> AdapterReturn(NoneVal)]
    /\ \E i \in 1..Len(adapter_log) :
           adapter_log[i].name = "quick_alerts" /\ adapter_log[i].outcome.kind = "raise"
    /\ ~HasKey(feature_pack, "obs_quick")
    /\ ~HasKey(feature_pack, "alerts_quick")
    /\ HasKey(feature_pack, "profile_quick")
    /\ HasKey(feature_pack, "user_context")

----------------------------------------------------------------------------
(* Claims about handle_worldview (specification SpecWorldview) *)

(* C10: with settings.offline = true, handle_worldview returns, for either
   value of severe_only, exactly two regions (US then Europe) with
   meta.samples_us = 0, meta.samples_eu = 0 and a sources list holding
   exactly one synthetic-data marker string, and it submits no observation
   or alert fetch. *)
C10_OfflineWorldview ==
    settings.offline =>
        /\ submitted = <<>>
        /\ fetched = NotFetched
        /\ wpc \in {"idle", "start", "done"}
        /\ (wpc = "done" =>
               /\ worldview # None
               /\ Len(worldview[1].regions) = 2
               /\ worldview[1].regions[1].name = "US"
               /\ worldview[1].regions[2].name = "Europe"
               /\ worldview[1].meta.samples_us = 0
               /\ worldview[1].meta.samples_eu = 0
               /\ Len(worldview[1].meta.sources) = 1
               /\ worldview[1].meta.sources[1] \in
                      {"Offline synthetic data",
                       "Offline synthetic data (severe weather only)"})

\* an offline severe-only request has returned its synthetic view
C10_Witness ==
    /\ settings.offline
    /\ severe_only
    /\ wpc = "done"
    /\ worldview # None
    /\ Len(worldview[1].regions[1].alerts) = 3
    /\ worldview[1].meta.sources = <<"Offline synthetic data (severe weather only)">>

\* the number of alerts of a feed that carry the event
FeedCount(feed, event) == Cardinality({k \in 1..Len(feed) : feed[k].event = event})

\* the region's alert summary agrees with the severe alerts of the feed that
\* the region's alert task was given
SummaryOfSevere(summary, task) ==
    LET feed == fetched[task][1].input.feed
    IN  /\ \A k \in 1..Len(summary) : summary[k].count = FeedCount(feed, summary[k].event)
        /\ \A k \in 1..Len(feed) :
               ~_is_severe_weather(feed[k].event) =>
                   \A m \in 1..Len(summary) : summary[m].event # feed[k].event

(* C11: for every Worldview returned by handle_worldview(severe_only=True),
   online or offline, every entry of every region's alert summary has an
   event name that satisfies the severe-weather keyword predicate; alerts of
   the feed that do not match never appear in a summary and are never
   counted. *)
C11_SevereOnlySummaries ==
    (severe_only /\ wpc = "done") =>
        /\ worldview # None
        /\ \A r \in 1..Len(worldview[1].regions) :
               \A k \in 1..Len(worldview[1].regions[r].alerts) :
                   _is_severe_weather(worldview[1].regions[r].alerts[k].event)
        /\ (fetched # NotFetched =>
               /\ SummaryOfSevere(worldview[1].regions[1].alerts, "us_alerts")
               /\ SummaryOfSevere(worldview[1].regions[2].alerts, "eu_alerts"))

\* an online severe-only view whose US feed held a Heat Advisory and a Flood
\* Watch: the summary holds the Flood Watch alone
C11_Witness ==
    /\ severe_only
    /\ ~settings.offline
    /\ wpc = "done"
    /\ fetched["us_alerts"] # None
    /\ Len(fetched["us_alerts"][1].input.feed) = 2
    /\ fetched["us_alerts"][1].input.feed[1].event = "Heat Advisory"
    /\ worldview # None
    /\ Len(worldview[1].regions[1].alerts) = 1
    /\ worldview[1].regions[1].alerts[1].event = "Flood Watch"
    /\ worldview[1].regions[1].alerts[1].count = 1

\* the number of sample points of a region whose request succeeded
GoodPoints(task) ==
    LET input == fetched[task][1].input
    IN  Cardinality({i \in DOMAIN input : input[i] = "ok"})

(* C12: in an online worldview request a sample point whose fetch fails
   (HTTP error, timeout or malformed upstream payload) contributes no
   Observation and does not keep the other points of its region from
   contributing; for every combination of per-point and per-feed failures
   handle_worldview returns a Worldview with both regions and does not
   raise. *)
C12_WorldviewSurvivesFailures ==
    /\ wpc # "raised"
    /\ (wpc = "done" /\ fetched # NotFetched) =>
           /\ worldview # None
           /\ Len(worldview[1].regions) = 2
           /\ worldview[1].meta.samples_us = GoodPoints("us_obs")
           /\ worldview[1].meta.samples_eu = GoodPoints("eu_obs")

----------------------------------------------------------------------------
(* Claims about the provider chain (specification SpecChain), continued *)

\* the number of calls made to a provider
CallCount(name) == Cardinality({i \in 1..Len(calls) : calls[i] = name})

(* C13: within one Forecaster.generate call the secondary provider is called
   only if the primary provider is unconfigured or its call has already
   failed; it is never called after the primary has returned text, and it
   is called at most once. *)
C13_SecondaryOnlyAfterPrimary ==
    /\ CallCount("gemini") <= 1
    /\ CallCount("gemini") = 1 =>
           /\ calls[Len(calls)] = "gemini"
           /\ \/ ~settings.openrouter_api_key /\ CallCount("openrouter") = 0
              \/ /\ calls = <<"openrouter", "gemini">>
                 /\ chat # None
                 /\ chat[1].kind = "raise"
    /\ (chat # None /\ chat[1].kind = "return") => CallCount("gemini") = 0

\* the secondary provider was called after the primary had used up its three
\* attempts
C13_Witness ==
    /\ calls = <<"openrouter", "gemini">>
    /\ attempts = retries
    /\ chat # None
    /\ chat[1].kind = "raise"
    /\ gemini # None
    /\ fpc = "done"

(* C14: when not offline and a secondary credential is configured, every
   failure of the primary provider to deliver text (authentication failure,
   retry exhaustion, missing content, or any other error raised by the
   primary call) is followed by an attempt on the secondary provider before
   Forecaster.generate returns a fallback response. *)
C14_PrimaryFailureTriesSecondary ==
    (/\ ~settings.offline
     /\ settings.gemini_api_key
     /\ fpc = "done"
     /\ chat # None
     /\ chat[1].kind = "raise") =>
        CallCount("gemini") = 1


\* an attempt that ended with a retryable status or a transport timeout/error
TransientFailure(o) ==
    \/ o.kind = "status" /\ o.status \in RETRYABLE_STATUS_CODES
    \/ o.kind \in {"timeout", "transport_error"}

\* an attempt that ended with 401/403 or with a body without message content
TerminalFailure(o) ==
    \/ o.kind = "status" /\ o.status \in {401, 403}
    \/ o.kind = "ok_missing_content"

\* the chat_completion call has ended
ChatEnded == chat # None

\* C15: a further HTTP attempt is made only after an attempt that ended with
\* 429/500/502/503/504 or a transport-level timeout/error; an attempt that
\* ended with 401/403 or without message content is the last one, is followed
\* by no backoff sleep and ends the call with OpenRouterError
C15_RetryOnlyAfterTransient ==
    /\ \A i \in 1..(Len(http_log) - 1) : TransientFailure(http_log[i])
    /\ (http_log # <<>> /\ TerminalFailure(http_log[Len(http_log)])) =>
           /\ ChatEnded
           /\ chat[1].kind = "raise"
           /\ chat[1].cls = "OpenRouterError"
           /\ Len(slept) = Len(http_log) - 1

\* every attempt made so far ended in a retryable failure
AllTransient == \A i \in 1..Len(http_log) : TransientFailure(http_log[i])

\* C16 (safety part): chat_completion makes at most `retries` attempts and
\* sleeps only between attempts; when every attempt ended in a retryable
\* failure the call ends only after exactly `retries` attempts, by raising
\* OpenRouterError, having slept retries - 1 times
C16_Bounded ==
    /\ attempts <= retries
    /\ Len(http_log) = attempts
    /\ Len(slept) <= retries - 1
    /\ Len(slept) = (IF ChatEnded THEN attempts - 1 ELSE attempts)
    /\ \A i \in 1..Len(slept) : slept[i] = Backoff(i)
    /\ (ChatEnded /\ AllTransient) =>
           /\ attempts = retries
           /\ chat[1].kind = "raise"
           /\ chat[1].cls = "OpenRouterError"
           /\ Len(slept) = retries - 1

\* C16: chat_completion always terminates, within the bounds of C16_Bounded
C16_ChatCompletionTerminates ==
    /\ []C16_Bounded
    /\ (fpc = "primary") ~> ChatEnded

\* three retryable failures in a row: the call has raised after two sleeps
C16_Witness ==
    /\ ChatEnded
    /\ AllTransient
    /\ attempts = retries
    /\ slept = <<Backoff(1), Backoff(2)>>
    /\ chat[1].cls = "OpenRouterError"


\* the text that a provider delivered to generate, if any
DeliveredText ==
    IF chat # None /\ chat[1].kind = "return" THEN Some(chat[1].text)
    ELSE IF gemini # None /\ gemini[1].kind = "text" THEN Some(gemini[1].text)
    ELSE None

\* the text is a JSON object, fenced or not
ParsedOk(text) == json_loads(Cleaned(text)) \in {"object", "empty_object"}

\* C18: Forecaster.explain reports "online" exactly when a provider answered
\* and its output was parsed, "offline" exactly when settings.offline is set,
\* "fallback" in every other case, and no other mode
C18_ExplainMode ==
    fpc = "explained" =>
        LET mode == explained[1].mode
        IN  /\ mode \in {"online", "offline", "fallback"}
            /\ (mode = "offline") <=> settings.offline
            /\ (mode = "online") <=>
                   /\ ~settings.offline
                   /\ DeliveredText # None
                   /\ ParsedOk(DeliveredText[1])

\* explain after the primary exhausted its retries and the secondary answered
\* with text that is not JSON: the mode is "fallback"
C18_Witness ==
    /\ fpc = "explained"
    /\ calls = <<"openrouter", "gemini">>
    /\ attempts = retries
    /\ gemini[1].kind = "text"
    /\ ~ParsedOk(gemini[1].text)
    /\ explained[1].mode = "fallback"

\* the response is a deterministic fallback: provider "offline" or "fallback:..."
IsFallbackResponse(resp) ==
    StartsWith(resp.provider, "offline") \/ StartsWith(resp.provider, "fallback")

\* C19: every deterministic fallback response returned by generate (offline,
\* after provider failure, after unparseable provider output) has
\* used_feature_fields equal to the field enumeration of the request's
\* FeaturePack, and its assumptions entry lists exactly those fields
C19_FallbackEnumeratesRequestPack ==
    (response # None /\ IsFallbackResponse(response[1])) =>
        LET fields == _enumerate_feature_fields(payload[1].feature_pack)
        IN  /\ response[1].used_feature_fields = fields
            /\ response[1].sections.assumptions = Assumptions(fields)

----------------------------------------------------------------------------
(* Claims about the handlers (specification Spec), continued *)

QuickFetches == {"quick_obs", "quick_profile", "quick_alerts"}

QuickSections == {"obs_quick", "profile_quick", "alerts_quick"}

\* C17: in every handler a fetch beyond location resolution is invoked, and
\* its section is added to the FeaturePack, only if trust_tools is enabled
C17_TrustToolsGate ==
    /\ \A i \in 1..Len(adapter_log) :
           adapter_log[i].name \in QuickFetches => settings.trust_tools
    /\ \A k \in QuickSections :
           HasKey(feature_pack, k) => settings.trust_tools


\* C20: with privacy mode off, handle_explain after a request passes to the
\* provider chain exactly the FeaturePack and the command of that most recent
\* request, and performs no adapter fetch
C20_ExplainUsesLastRequest ==
    [][(~settings.privacy_mode /\ epc = "idle" /\ epc' # "idle") =>
           /\ epc' = "returned"
           /\ payload'[1].feature_pack = feature_pack
           /\ payload'[1].intent = "explain:" \o request[1].command
           /\ adapter_log' = adapter_log
           /\ fetchers' = fetchers]_vars

\* C21: with privacy_mode enabled no handler step changes the persisted
\* last-query state, and handle_explain run when nothing was persisted ends
\* with RuntimeError, without calling Forecaster.explain
C21_PrivacyNoPersist ==
    [][settings.privacy_mode =>
           /\ saved' = saved
           /\ (epc = "idle" /\ epc' # "idle" /\ saved = None) =>
                  /\ epc' = "raised"
                  /\ explained' = None
                  /\ payload' = None]_vars

\* a forecast served in privacy mode, then explain: nothing saved, explain raised
C21_Witness ==
    /\ settings.privacy_mode
    /\ Serving({"forecast"})
    /\ hpc = "done"
    /\ saved = None
    /\ epc = "raised"

----------------------------------------------------------------------------
(* Claims about the adapters (specification SpecFetchers) *)

\* the adapter call was made with offline=True and has ended
OfflineCallEnded ==
    adapter # None /\ adapter[1].offline /\ adapter[1].result # None

EmptyValues == {"None", "[]", "dict of None and []"}

\* the coordinates that validate_coordinates rejects
InvalidCoordinates(lat, lon) ==
    \/ lat.kind # "num"
    \/ lon.kind # "num"
    \/ lat.v < 0 - 90 \/ lat.v > 90
    \/ lon.v < 0 - 180 \/ lon.v > 180

\* C22 as stated: every adapter called with offline=True performs no network
\* request and returns None or an empty list/structure, without raising,
\* for every input
C22_OfflineNeverRaises ==
    OfflineCallEnded =>
        /\ ~adapter[1].result[1].network
        /\ adapter[1].result[1].kind = "return"
        /\ adapter[1].result[1].value \in EmptyValues

\* C22, amended: every adapter called with offline=True performs no network
\* request; it returns None or an empty list/structure, except that the
\* adapters that validate their coordinates first raise ValueError when the
\* coordinates are invalid
C22_OfflineNoNetwork ==
    OfflineCallEnded =>
        LET call == adapter[1]
            res  == adapter[1].result[1]
        IN  /\ ~res.network
            /\ IF call.name \in VALIDATING /\ InvalidCoordinates(call.lat, call.lon)
               THEN res.kind = "raise" /\ res.cls = "ValueError"
               ELSE res.kind = "return" /\ res.value \in EmptyValues

\* get_nws_forecast_grid(91, -74, offline=True) has raised ValueError
C22_Witness ==
    /\ OfflineCallEnded
    /\ adapter[1].name = "get_nws_forecast_grid"
    /\ adapter[1].lat = Num(91)
    /\ adapter[1].lon = Num(0 - 74)
    /\ adapter[1].result[1] = FetcherRaise("ValueError", FALSE)

----------------------------------------------------------------------------
(* Claims about response parsing (specification SpecChain) *)

\* generate has returned after a provider delivered text to _parse_response
ParsedDelivered ==
    /\ ~settings.offline
    /\ response # None
    /\ DeliveredText # None

\* C23: _parse_response returns a ForecasterResponse without raising for every
\* provider text (fenced or not; a JSON object, JSON that is not an object,
\* invalid JSON): the response generate returns is the one _parse_response
\* built, labelled with the answering provider or "fallback:unparseable",
\* never the fallback of generate's exception handler; for invalid JSON it is
\* the deterministic fallback with the provider's text kept in raw_text
C23_ParseNeverRaises ==
    ParsedDelivered =>
        LET text == DeliveredText[1]
            resp == response[1]
        IN  /\ \/ StartsWith(resp.provider, "openrouter")
               \/ StartsWith(resp.provider, "gemini")
               \/ resp.provider = Provider2("fallback", "unparseable")
            /\ json_loads(Cleaned(text)) = "invalid" =>
                   /\ resp.provider = Provider2("fallback", "unparseable")
                   /\ resp.bottom_line = FALLBACK_BOTTOM_LINE
                   /\ resp.raw_text = ProviderText(text)

----------------------------------------------------------------------------
(* Claims about the field enumeration (specification SpecFallback) *)

\* the value is None, an empty list or an empty map
SkippedValue(value) ==
    \/ value.kind = "none"
    \/ value.kind \in {"list", "dict"} /\ Len(value.entries) = 0

\* "section.subkey" for every subkey of a dict-valued section
SubkeyFields(key, value) ==
    {key \o "." \o value.entries[i].key : i \in 1..Len(value.entries)}

\* the field names the claim expects for one section
ExpectedFields(key, value) ==
    IF SkippedValue(value) THEN {}
    ELSE IF value.kind = "dict" THEN SubkeyFields(key, value)
    ELSE {key}

\* the same, with the units section listed by its bare key
ExpectedFieldsUnitsBare(key, value) ==
    IF SkippedValue(value) THEN {}
    ELSE IF key = "units" THEN {"units"}
    ELSE ExpectedFields(key, value)

\* C25 as stated: keys whose value is None, an empty list or an empty map are
\* skipped, every dict-valued section yields one section.subkey entry per
\* subkey, every other section yields its bare key
C25_EnumerateFields ==
    fb_first # None =>
        LET used == fb_first[1].used_feature_fields
        IN  /\ Range(used) =
                   UNION {ExpectedFields(fb_pack[i].key, fb_pack[i].value) :
                              i \in 1..Len(fb_pack)}
            /\ Cardinality(Range(used)) = Len(used)

\* C25, amended: as stated, except that a non-empty units section yields the
\* bare key "units" even when it is a dict
C25_EnumerateFieldsUnitsBare ==
    fb_first # None =>
        LET used == fb_first[1].used_feature_fields
        IN  /\ Range(used) =
                   UNION {ExpectedFieldsUnitsBare(fb_pack[i].key, fb_pack[i].value) :
                              i \in 1..Len(fb_pack)}
            /\ Cardinality(Range(used)) = Len(used)

\* a pack with a dict-valued units section and an empty list: the fields are
\* the bare "units" alone
C25_Witness ==
    /\ fb_first # None
    /\ fb_pack = <<[key |-> "units", value |-> DictOf(<<"lat", "lon">>)],
                   [key |-> "alerts_quick", value |-> ListVal(<<>>)]>>
    /\ fb_first[1].used_feature_fields = <<"units">>

----------------------------------------------------------------------------
(* Claims about the handlers (specification Spec), continued *)

\* the FeaturePack of the request is the one handed to the provider chain
PackHandedOver == hpc \in {"generate", "done"}

\* C24: the FeaturePack handed to the provider chain for every forecast, risk
\* and question request has a user_context section whose use_case is the
\* request's use case, with the constraints, when any, as an ordered list of
\* tags, the focus tag before the verbose tag
C24_UserContextUseCase ==
    (Serving({"forecast", "risk", "question"}) /\ PackHandedOver) =>
        /\ HasKey(feature_pack, "user_context")
        /\ LET uc == Get(feature_pack, "user_context")
           IN  /\ uc.kind = "dict"
               /\ \E i \in 1..Len(uc.entries) :
                      uc.entries[i] = Entry("use_case", <<request[1].command>>)
               /\ \A i \in 1..Len(uc.entries) :
                      uc.entries[i].key = "constraints" =>
                          \A a, b \in 1..Len(uc.entries[i].val) :
                              (uc.entries[i].val[a] = "verbose" /\ request[1].focus # None
                                   /\ uc.entries[i].val[b] = "focus:" \o request[1].focus[1])
                                  => b < a

\* adapter `name` has not been called yet in this request
NotCalledYet(name) ==
    /\ hpc # InFlight(name)
    /\ \A i \in 1..Len(adapter_log) : adapter_log[i].name # name

\* C26: in a forecast request with trust tools enabled and a resolved place
\* the quick_obs, quick_profile and quick_alerts calls run concurrently:
\* while one of them is in flight, each of the others that has not been
\* called yet can start
C26_QuickFetchesConcurrent ==
    (Serving({"forecast"}) /\ settings.trust_tools /\ Truthy(place_info)
         /\ hpc \in {InFlight(name) : name \in QuickFetches}) =>
        /\ NotCalledYet("quick_obs") => ENABLED StartQuickObs
        /\ NotCalledYet("quick_profile") => ENABLED StartQuickProfile
        /\ NotCalledYet("quick_alerts") => ENABLED StartQuickAlerts

\* the number of sample points of a region whose worker ended with an
\* Observation
OkPoints(input) == Cardinality({p \in DOMAIN input : input[p] = "ok"})

\* C27: in an online worldview request the aggregation (region statistics,
\* region summaries, alert summaries, delivered together as the Worldview)
\* is computed only in a state where all four fetch tasks have completed,
\* and it counts the Observation of every per-point worker of both regions:
\* no worker's result arrives after the aggregation.
C27_AggregationAfterFetches ==
    [][(~settings.offline /\ worldview = None /\ worldview' # None) =>
          /\ Range(submitted) = Range(FetchTasks)
          /\ \A task \in Range(FetchTasks) : fetched[task] # None
          /\ fetched' = fetched
          /\ worldview'[1].meta.samples_us = OkPoints(fetched["us_obs"][1].input)
          /\ worldview'[1].meta.samples_eu = OkPoints(fetched["eu_obs"][1].input)
          /\ worldview'[1].regions[1].stats
                 = _compute_region_stats(fetched["us_obs"][1].res.value)]_vars

\* an online Worldview has been assembled from a US batch in which one
\* worker delivered an Observation and another one failed
C27_Witness ==
    /\ ~settings.offline
    /\ wpc = "done"
    /\ worldview # None
    /\ \E p, q \in DOMAIN fetched["us_obs"][1].input :
           /\ fetched["us_obs"][1].input[p] = "ok"
           /\ fetched["us_obs"][1].input[q] = "timeout"
    /\ worldview[1].meta.samples_us >= 1

----------------------------------------------------------------------------
(* Claims about the region summary (specification SpecSummary) *)

\* the sentence mentions the part
Mentions(part) == \E k \in DOMAIN region_summary[1].text : region_summary[1].text[k] = part

\* some Observation of the region has a value of the field above the limit
SomeAbove(field, limit) ==
    \E i \in DOMAIN observations :
        observations[i][field] # None /\ observations[i][field][1] > limit

\* C28: _generate_region_summary returns exactly "No data available for
\* {region}." for a region without Observations; otherwise the sentence
\* mentions the temperature range iff some Observation has a temperature,
\* precipitation iff the largest probability is strictly greater than 30,
\* wind iff the largest wind is strictly greater than 10, and the alert
\* count iff the alert list is not empty.
C28_RegionSummary ==
    region_summary # None =>
        IF Len(observations) = 0
        THEN region_summary[1].text
                 = <<"No data available for " \o region_summary[1].region \o ".">>
        ELSE /\ Mentions("Temps") <=> \E i \in DOMAIN observations : observations[i].temp # None
             /\ Mentions("precip chance") <=> SomeAbove("precip_prob", 30)
             /\ Mentions("winds") <=> SomeAbove("wind", 10)
             /\ Mentions("active alerts") <=> Len(alerts) > 0
             /\ \A k \in DOMAIN region_summary[1].text :
                    region_summary[1].text[k] \notin {"No data available for US.",
                                                      "No data available for Europe."}

\* the summary of a region whose largest precipitation probability is exactly
\* 30 and whose largest wind is 11: wind is mentioned, precipitation is not
C28_Witness ==
    /\ region_summary # None
    /\ Len(observations) > 0
    /\ \E i \in DOMAIN observations : observations[i].precip_prob = Some(30)
    /\ ~SomeAbove("precip_prob", 30)
    /\ SomeAbove("wind", 10)
    /\ Mentions("winds")
    /\ ~Mentions("precip chance")

----------------------------------------------------------------------------
(* Claims about the areas of the alert summary (specification SpecAreas) *)

\* the areas of all input Alerts with the event name
AllAreasOf(event) ==
    UNION {Range(alerts[i].areas) : i \in {j \in DOMAIN alerts : alerts[j].event = event}}

\* the first two areas of every input Alert with the event name
FirstTwoAreasOf(event) ==
    UNION {Range(Take(alerts[i].areas, 2)) :
               i \in {j \in DOMAIN alerts : alerts[j].event = event}}

\* the list names, without repetition, all areas of the set or five of them
CappedUnion(areaList, areaSet) ==
    /\ Range(areaList) \subseteq areaSet
    /\ \A i, j \in DOMAIN areaList : i # j => areaList[i] # areaList[j]
    /\ Len(areaList) = IF Cardinality(areaSet) > 5 THEN 5 ELSE Cardinality(areaSet)

\* C29 as stated: every entry's areas is the union of the affected areas of
\* all input Alerts with that event name, capped at 5 areas per event.
C29_AreasUnion ==
    alert_summary # None =>
        \A k \in DOMAIN alert_summary[1] :
            CappedUnion(alert_summary[1][k].areas, AllAreasOf(alert_summary[1][k].event))

\* C29, amended: every entry's areas is the union of the first two affected
\* areas of each input Alert with that event name, capped at 5 areas per
\* event.
C29_AreasUnionOfFirstTwo ==
    alert_summary # None =>
        \A k \in DOMAIN alert_summary[1] :
            CappedUnion(alert_summary[1][k].areas, FirstTwoAreasOf(alert_summary[1][k].event))

\* three alerts of one event whose first two areas are six different
\* areas, one alert naming a third area: the entry has five areas
C29_Witness ==
    /\ alert_summary # None
    /\ Len(alert_summary[1]) = 1
    /\ Cardinality(FirstTwoAreasOf(alert_summary[1][1].event)) = 6
    /\ Cardinality(AllAreasOf(alert_summary[1][1].event)) = 7
    /\ Len(alert_summary[1][1].areas) = 5

----------------------------------------------------------------------------
(* Claims about the rate limiter (specification SpecLimiter) *)

\* the number of recorded calls in the window [from, from + window)
CallsInWindow(from, window) ==
    Cardinality({i \in DOMAIN limiter[1].recorded :
                     from <= limiter[1].recorded[i] /\ limiter[1].recorded[i] < from + window})

\* C30: for any interleaving of wait_if_needed calls of the threads on one
\* RateLimiter, the recorded call times never contain more than
\* calls_per_minute entries within a 60-second window nor more than
\* burst_limit entries within a 10-second window.
C30_RateLimits ==
    limiter # None =>
        \A from \in 0..MaxClock :
            /\ CallsInWindow(from, 60) <= limiter[1].calls_per_minute
            /\ CallsInWindow(from, 10) <= limiter[1].burst_limit

\* a thread slept for the per-minute limit while another thread waited for
\* the lock, and more than calls_per_minute calls have been recorded
C30_Witness ==
    /\ limiter # None
    /\ Len(limiter[1].recorded) > limiter[1].calls_per_minute
    /\ limiter[1].recorded[Len(limiter[1].recorded)] - limiter[1].recorded[1] = 60
    /\ \E i \in DOMAIN limiter[1].recorded :
           i > 1 /\ limiter[1].recorded[i] - limiter[1].recorded[i - 1] = 10

=============================================================================
